---- MODULE Spec2Model ----
(***************************************************************************)
(* Model of the auction bot (LilDojd/tg-auction-bot): the bid acceptance   *)
(* protocol of src/bot/handlers.rs on top of the catalog store of          *)
(* src/db.rs, the per-chat dialogue store, and the money codec of          *)
(* src/util.rs.                                                            *)
(*                                                                         *)
(* Every chat has at most one handler in flight (the dispatcher hands the  *)
(* updates of one chat to one worker, in order); handlers of different     *)
(* chats interleave at their await points.  A storage call or a delivery   *)
(* may fail at any time.  `returned` is the handler that returned in the   *)
(* last step, with its locals and what it sent.  `call` is the activation  *)
(* of a function that is studied on its own (broadcast_text,               *)
(* parse_money_to_cents); the handlers leave it alone.                     *)
(***************************************************************************)
EXTENDS Integers, Sequences, FiniteSets, TLC

VARIABLES items, bids, notifications_disabled, dialogue, task, returned,
          categories, favorites, users, new_items, serial, call

vars == <<items, bids, notifications_disabled, dialogue, task, returned,
          categories, favorites, users, new_items, serial, call>>

\* The tables and columns that the bid protocol does not write: the categories,
\* the favorites, the registered users, the items flagged is_new, and the last
\* values of the id sequences of items and categories.
registry == <<categories, favorites, users, new_items, serial>>

(***************************************************************************)
(* Bounds of the model.                                                    *)
(***************************************************************************)
NumUsers == 2
NumItems == 1
MaxUnits == 2
MaxCategories == 1

Users == 1 .. NumUsers
ItemIds == 1 .. NumItems
\* A private chat has the id of its user.
Chats == Users
\* The admin identity list of the configuration; the admin creates the items
\* and so is their seller.
Admins == {1}
StartPrices == {100, 200}

(***************************************************************************)
(* Text.  A text is a sequence of characters.                              *)
(***************************************************************************)
DigitChars == <<"0", "1", "2", "3", "4", "5", "6", "7", "8", "9">>

IsDigit(ch) == \E i \in 1 .. 10 : DigitChars[i] = ch

DigitVal(ch) == (CHOOSE i \in 1 .. 10 : DigitChars[i] = ch) - 1

IsSpace(ch) == ch = " "

RECURSIVE TrimStart(_)
TrimStart(s) ==
  IF s # <<>> /\ IsSpace(Head(s)) THEN TrimStart(Tail(s)) ELSE s

RECURSIVE TrimEnd(_)
TrimEnd(s) ==
  IF s # <<>> /\ IsSpace(s[Len(s)]) THEN TrimEnd(SubSeq(s, 1, Len(s) - 1)) ELSE s

\* str::trim
Trim(s) == TrimEnd(TrimStart(s))

AllDigits(s) == \A i \in 1 .. Len(s) : IsDigit(s[i])

\* Two decimal digits outside ASCII, named by their code points: ARABIC-INDIC
\* DIGIT THREE (two bytes in UTF-8) and DEVANAGARI DIGIT ONE (three bytes)
NonAsciiDigits == {"U+0663", "U+0967"}

\* The length of a character in UTF-8
Utf8Len(ch) == CASE ch = "U+0663" -> 2 [] ch = "U+0967" -> 3 [] OTHER -> 1

\* \d of the regex crate: Unicode mode is on, \d is the class Nd
IsUnicodeDigit(ch) == IsDigit(ch) \/ ch \in NonAsciiDigits

AllUnicodeDigits(s) == \A i \in 1 .. Len(s) : IsUnicodeDigit(s[i])

\* str::len: the length in bytes
RECURSIVE ByteLen(_)
ByteLen(s) == IF s = <<>> THEN 0 ELSE Utf8Len(Head(s)) + ByteLen(Tail(s))

\* &s[.. n]: the first n bytes of s; it panics when byte n is inside a
\* character or beyond the end
RECURSIVE BytePrefix(_, _)
BytePrefix(s, n) ==
  IF n = 0 THEN [ok |-> TRUE, text |-> <<>>]
  ELSE IF s = <<>> \/ Utf8Len(Head(s)) > n THEN [ok |-> FALSE, text |-> <<>>]
  ELSE LET rest == BytePrefix(Tail(s), n - Utf8Len(Head(s)))
       IN  [ok |-> rest.ok, text |-> IF rest.ok THEN <<Head(s)>> \o rest.text ELSE <<>>]

\* Position of the first '.', or 0.
DotPos(s) ==
  IF \E i \in 1 .. Len(s) : s[i] = "."
  THEN CHOOSE i \in 1 .. Len(s) : s[i] = "." /\ \A j \in 1 .. i - 1 : s[j] # "."
  ELSE 0

\* PRICE_PATTERN: ^\d+(?:\.\d{1,2})?$
PRICE_PATTERN(s) ==
  LET p == DotPos(s) IN
  IF p = 0
  THEN Len(s) >= 1 /\ AllUnicodeDigits(s)
  ELSE /\ p >= 2
       /\ AllUnicodeDigits(SubSeq(s, 1, p - 1))
       /\ Len(s) - p \in {1, 2}
       /\ AllUnicodeDigits(SubSeq(s, p + 1, Len(s)))

RECURSIVE StripZeros(_)
StripZeros(ds) ==
  IF Len(ds) > 1 /\ Head(ds) = "0" THEN StripZeros(Tail(ds)) ELSE ds

RECURSIVE LexLeq(_, _)
LexLeq(a, b) ==
  IF a = <<>> THEN TRUE
  ELSE IF DigitVal(Head(a)) # DigitVal(Head(b))
       THEN DigitVal(Head(a)) < DigitVal(Head(b))
       ELSE LexLeq(Tail(a), Tail(b))

\* a <= b for two decimal numerals
DigitsLeq(a, b) ==
  LET x == StripZeros(a)
      y == StripZeros(b)
  IN  Len(x) < Len(y) \/ (Len(x) = Len(y) /\ LexLeq(x, y))

\* i64::MAX = 9223372036854775807, as a numeral
I64MaxDigits ==
  <<"9", "2", "2", "3", "3", "7", "2", "0", "3", "6",
    "8", "5", "4", "7", "7", "5", "8", "0", "7">>

FitsI64(ds) == DigitsLeq(ds, I64MaxDigits)

RECURSIVE DigitsToInt(_)
DigitsToInt(ds) ==
  IF ds = <<>> THEN 0
  ELSE DigitsToInt(SubSeq(ds, 1, Len(ds) - 1)) * 10 + DigitVal(ds[Len(ds)])

MoneyOk(cents) == [ok |-> TRUE, cents |-> cents, err |-> "none"]
MoneyErr(e) == [ok |-> FALSE, cents |-> 0, err |-> e]

\* The digits of str::parse::<i64> are the ASCII ones
ParsesAsI64(ds) == ds # <<>> /\ AllDigits(ds) /\ FitsI64(ds)

\* util::parse_money_to_cents with the amount as a numeral, so that amounts
\* near i64::MAX can be told apart; "Panic" is the panic of the slice
\* minor[.. 2] at a byte that is not a character boundary
parse_money_numeral(input) ==
  LET t == Trim(input)
      p == DotPos(t)
      major == IF p = 0 THEN t ELSE SubSeq(t, 1, p - 1)
      frac == IF p = 0 THEN <<>> ELSE SubSeq(t, p + 1, Len(t))
      sliced == BytePrefix(frac, 2)
      \* one fractional byte is padded with a zero, else the first two are taken
      minor == IF p = 0 THEN <<"0", "0">>
               ELSE IF ByteLen(frac) = 1 THEN frac \o <<"0">>
               ELSE sliced.text
      Err(e) == [ok |-> FALSE, digits |-> <<>>, err |-> e]
  IN  IF ~PRICE_PATTERN(t) THEN Err("InvalidFormat")
      ELSE IF ~ParsesAsI64(major) THEN Err("InvalidFormat")
      ELSE IF p # 0 /\ ByteLen(frac) # 1 /\ ~sliced.ok THEN Err("Panic")
      ELSE IF ~ParsesAsI64(minor) THEN Err("OutOfRange")
      \* major * 100 + minor is the numeral major ++ minor
      ELSE IF ~FitsI64(major \o minor) THEN Err("OutOfRange")
      ELSE [ok |-> TRUE, digits |-> StripZeros(major \o minor), err |-> "none"]

\* util::parse_money_to_cents
parse_money_to_cents(input) ==
  LET r == parse_money_numeral(input)
  IN  IF r.ok THEN MoneyOk(DigitsToInt(r.digits)) ELSE MoneyErr(r.err)

\* str::parse::<i64> on the texts of the model (an optional sign, then digits)
parse_i64(s) ==
  LET body == IF s # <<>> /\ Head(s) \in {"+", "-"} THEN Tail(s) ELSE s
      neg == s # <<>> /\ Head(s) = "-"
  IN  IF body = <<>> \/ ~AllDigits(body) \/ ~FitsI64(body)
      THEN [ok |-> FALSE, value |-> 0]
      ELSE [ok |-> TRUE, value |-> IF neg THEN 0 - DigitsToInt(body) ELSE DigitsToInt(body)]

LowerChar(ch) ==
  CASE ch = "C" -> "c" [] ch = "A" -> "a" [] ch = "N" -> "n"
    [] ch = "E" -> "e" [] ch = "L" -> "l" [] ch = "X" -> "x" [] OTHER -> ch

\* LOWER(name), str::to_ascii_lowercase
Lower(s) == [i \in 1 .. Len(s) |-> LowerChar(s[i])]

\* str::eq_ignore_ascii_case("cancel")
IsCancel(s) == Lower(s) = <<"c", "a", "n", "c", "e", "l">>

(***************************************************************************)
(* Inputs of the model.                                                    *)
(***************************************************************************)
UnitText(n) == <<DigitChars[n + 1]>>

\* What a bidder may type: whole amounts, one amount with a fraction, one
\* with surrounding blanks, a malformed one and a blank message.
BidTexts ==
  {UnitText(n) : n \in 1 .. MaxUnits}
    \cup {<<"x">>, <<" ">>}

\* What an admin may type as an item id.
IdTexts ==
  {UnitText(i) : i \in ItemIds} \cup {<<"c", "a", "n", "c", "e", "l">>, <<"x">>, <<>>}

\* What an admin may type into a draft: the cancel keyword in mixed case with
\* blanks around it, a name, a price (also an item id), and a message
\* without text.
AdminTexts ==
  {<<" ", "C", "a", "n", "c", "e", "l", " ">>, <<"x">>, <<"1">>, <<>>}

\* The values of a pickcat action
PickcatValues ==
  {<<"n", "e", "w">>, <<"x">>} \cup {UnitText(k) : k \in 1 .. MaxCategories}

\* A message of an AddItem draft: its text or caption, and its photo (0: none)
AddItemMessages == {[text |-> t, photo |-> ph] : t \in AdminTexts \ {<<"x">>}, ph \in {0, 1}}

(***************************************************************************)
(* Catalog store (src/db.rs).                                              *)
(***************************************************************************)
None == <<>>

\* An item row; `present` is FALSE for the result of a lookup that found no row
\* and for a row that was deleted.  `images` are the file ids of the rows of
\* item_images of the item, by position.
ItemRow(seller_tg_id, category_id, start_price) ==
  [present |-> TRUE, is_open |-> TRUE, seller_tg_id |-> seller_tg_id,
   category_id |-> category_id, start_price |-> start_price,
   title |-> <<"x">>, description |-> <<>>, images |-> <<>>]

NoItem ==
  [present |-> FALSE, is_open |-> FALSE, seller_tg_id |-> 0, category_id |-> 0,
   start_price |-> 0, title |-> <<>>, description |-> <<>>, images |-> <<>>]

\* An insert of the item that stores the cover image and no other
create_item_cover_only(seller_tg_id, category_id, title, description, start_price, image_file_ids) ==
  [ItemRow(seller_tg_id, category_id, start_price) EXCEPT
     !.title = title, !.description = description,
     !.images = IF image_file_ids = <<>> THEN <<>> ELSE <<Head(image_file_ids)>>]

\* Db::create_item: the row of INSERT INTO items (is_open by default; is_new
\* is the membership in new_items) with the rows of item_images inserted so
\* far, one INSERT per image in the order of the list
create_item(seller_tg_id, category_id, title, description, start_price, image_file_ids) ==
  [ItemRow(seller_tg_id, category_id, start_price) EXCEPT
     !.title = title, !.description = description, !.images = image_file_ids]

\* Option::Some
Some(x) == <<x>>

\* A category row
CategoryRow(id, name) == [id |-> id, name |-> name]

\* Db::find_category_by_name: WHERE LOWER(name) = LOWER($1) LIMIT 1; None when
\* no row matches
find_category_by_name(name) ==
  LET found == {row \in categories : Lower(row.name) = Lower(name)} IN
  IF found = {} THEN None ELSE Some(CHOOSE row \in found : TRUE)

\* Db::get_item: the row, or none
get_item(item_id) ==
  IF item_id \in ItemIds /\ items[item_id].present THEN items[item_id] ELSE NoItem

\* Db::delete_item: DELETE FROM items WHERE id = $1 (the bids of the item go
\* with it)
delete_item_rows(item_id) == [items EXCEPT ![item_id] = NoItem]
delete_item_bids(item_id) == [bids EXCEPT ![item_id] = <<>>]
delete_item_favorites(item_id) == {f \in favorites : f[2] # item_id}

\* ORDER BY amount DESC, created_at ASC LIMIT 1: index of the first bid that no
\* other bid exceeds.  The bids of an item are kept in insertion order.
BestIndex(bs) ==
  CHOOSE i \in 1 .. Len(bs) :
    /\ \A j \in 1 .. Len(bs) : bs[j].amount <= bs[i].amount
    /\ \A j \in 1 .. i - 1 : bs[j].amount < bs[i].amount

\* Db::best_bid_with_bidder: (bidder_tg_id, amount), or None
best_bid_with_bidder(item_id) ==
  LET bs == IF item_id \in ItemIds THEN bids[item_id] ELSE <<>> IN
  IF bs = <<>> THEN None
  ELSE <<bs[BestIndex(bs)].bidder_tg_id, bs[BestIndex(bs)].amount>>

\* Db::place_bid: INSERT INTO bids
place_bid(item_id, bidder_tg_id, amount) ==
  [bids EXCEPT ![item_id] =
     Append(@, [bidder_tg_id |-> bidder_tg_id, amount |-> amount])]

\* Db::close_item: UPDATE items SET is_open = FALSE WHERE id = $1
close_item(item_id) ==
  IF item_id \in ItemIds /\ items[item_id].present
  THEN [items EXCEPT ![item_id].is_open = FALSE]
  ELSE items

\* Db::delete_category: DELETE FROM categories WHERE id = $1; the items of the
\* category, their bids and their favorites go with it
InCategory(category_id) ==
  {i \in ItemIds : items[i].present /\ items[i].category_id = category_id}

\* Db::upsert_user: the user is registered from then on
upsert_user(id) == users \cup {id}

\* Db::list_user_ids: SELECT id FROM users
list_user_ids == users

\* Db::list_item_bidder_ids: SELECT DISTINCT bidder_tg_id FROM bids WHERE item_id = $1
list_item_bidder_ids(item_id) ==
  IF item_id \in ItemIds
  THEN {bids[item_id][k].bidder_tg_id : k \in 1 .. Len(bids[item_id])}
  ELSE {}

\* Db::list_item_favorite_user_ids: SELECT DISTINCT user_id FROM favorites
\* WHERE item_id = $1
list_item_favorite_user_ids(item_id) == {f[1] : f \in {g \in favorites : g[2] = item_id}}

\* Db::filter_notifications_allowed: the users of the list that have not muted
\* notifications
filter_notifications_allowed(recipients) ==
  {u \in recipients : ~notifications_disabled[u]}

(***************************************************************************)
(* Dialogue store and handler tasks.                                       *)
(***************************************************************************)
Idle == [kind |-> "Idle", item_id |-> 0, user |-> 0]
PlaceBid(item_id, bidder_tg_id) ==
  [kind |-> "PlaceBid", item_id |-> item_id, user |-> bidder_tg_id]
CloseItem(admin_tg_id) == [kind |-> "CloseItem", item_id |-> 0, user |-> admin_tg_id]
RemoveItem(admin_tg_id) == [kind |-> "RemoveItem", item_id |-> 0, user |-> admin_tg_id]
AddCategory(admin_tg_id) == [kind |-> "AddCategory", item_id |-> 0, user |-> admin_tg_id]
RemoveCategory(admin_tg_id) ==
  [kind |-> "RemoveCategory", item_id |-> 0, user |-> admin_tg_id]
Broadcast(admin_tg_id) == [kind |-> "Broadcast", item_id |-> 0, user |-> admin_tg_id]

\* AddItemDraft::new(seller_tg_id, None); `user` is seller_tg_id, the owner of
\* the draft
AddItemDraft_new(seller_tg_id) ==
  [kind |-> "AddItem", item_id |-> 0, user |-> seller_tg_id, stage |-> "Category",
   category_id |-> None, category_name |-> None, title |-> None, description |-> None,
   start_price |-> None, image_file_ids |-> <<>>]

\* The draft an admin:<value> action stores
AdminDraft(value, admin_tg_id) ==
  CASE value = "add_category" -> AddCategory(admin_tg_id)
    [] value = "add_item" -> AddItemDraft_new(admin_tg_id)
    [] value = "remove_item" -> RemoveItem(admin_tg_id)
    [] value = "remove_category" -> RemoveCategory(admin_tg_id)
    [] value = "close_item" -> CloseItem(admin_tg_id)
    [] value = "broadcast" -> Broadcast(admin_tg_id)

\* The handler of a chat: its position, its locals (sender .. is_highest) and
\* what it has done so far: the verdict of validate_bid (result, value), the
\* last message sent to the chat (reply), whether the bid was stored, the
\* outcome of the two notices, the storage call that failed, if one did, and
\* for a closure or an announcement the best bid that was read (winning_bid),
\* the messages whose delivery was attempted (notices) and the recipients
\* whose delivery failed (undelivered).  An inline action keeps its payload
\* (callback, arg), and a message of an admin draft whether its text is the
\* cancel keyword.
NoTask ==
  [handler |-> "none", pc |-> "idle", chat |-> 0, sender |-> 0, draft |-> Idle,
   item_id |-> 0, amount_cents |-> 0, item |-> NoItem,
   previous_best |-> None, highest |-> None, is_highest |-> FALSE,
   result |-> "none", value |-> 0, reply |-> "none", stored |-> FALSE,
   outbid |-> "none", seller |-> "none", failed |-> "none", ret |-> "none",
   winning_bid |-> None, notices |-> {}, undelivered |-> {},
   callback |-> "none", arg |-> "none", cancel |-> FALSE,
   name |-> <<>>, photo |-> 0, category |-> 0, existing |-> FALSE,
   answered |-> 0]

\* No function is studied on its own
NoCall == [fn |-> "none"]

\* The handler of a message in a chat that holds a draft is given the draft
NewTask(handler, c, u) ==
  [NoTask EXCEPT !.handler = handler, !.chat = c, !.sender = u, !.draft = dialogue[c]]

\* handle_callback_query and handle_start are given the dialogue, not its state
NewCallback(handler, c, u) == [NoTask EXCEPT !.handler = handler, !.chat = c, !.sender = u]

\* A dispatcher that hands an update to a handler whatever the chat is doing
Unserialized(c) == TRUE

\* No handler of chat c is in flight: the next update of the chat can be taken.
Free(c) == task[c].pc = "idle"

\* The handler of chat c goes on to its next await point.
Continue(c, t) ==
  /\ task' = [task EXCEPT ![c] = t]
  /\ returned' = NoTask
  /\ UNCHANGED call

\* The handler of chat c returns `ret`.
Return(c, t, ret) ==
  /\ task' = [task EXCEPT ![c] = NoTask]
  /\ returned' = [t EXCEPT !.pc = "returned", !.ret = ret]
  /\ UNCHANGED call

\* `bot.send_message(chat, reply).await?` as the last statement of a handler:
\* the handler returns Ok when the message was delivered and the error when not.
Reply(c, t, reply) ==
  \E ok \in BOOLEAN :
    Return(c, [t EXCEPT !.reply = reply], IF ok THEN "Ok" ELSE "Err")

\* `bot.answer_callback_query(query.id)` with or without a text, `?`, the
\* last statement of handle_callback_query: the one acknowledgment of the
\* inline action is sent, and the handler returns Ok or, when the call failed,
\* the error.
Answer(c, t, text) ==
  \E ok \in BOOLEAN :
    Return(c, [t EXCEPT !.reply = text, !.answered = @ + 1], IF ok THEN "Ok" ELSE "Err")

\* A branch of handle_callback_query that sends or edits a message of the chat
\* (`?`) before the acknowledgment: when that call fails the handler returns
\* the error there.
SendAndAnswer(c, t, text) ==
  \/ Return(c, [t EXCEPT !.reply = text], "Err")
  \/ Answer(c, t, text)

\* Who can write in chat c: a private chat has one member.
Members(c) == {c}

(***************************************************************************)
(* Bid acceptance (handle_bid_message, validate_bid).                      *)
(***************************************************************************)
\* The BidError a failed storage call of validate_bid becomes: the calls of Db
\* return anyhow::Result, and `?` converts an anyhow::Error with
\* From<anyhow::Error>, which is the variant Anyhow.
DbError == "Anyhow"

\* BidError::user_message, and the text of the Storage arm of handle_bid_message
BidReply(result) ==
  CASE result = "Storage" -> "retry_later"
    [] result = "Anyhow" -> "unhandled_error"
    [] result = "InvalidAmount" -> "amount_format"
    [] result = "NotFound" -> "item_not_found"
    [] result = "Closed" -> "auction_closed"
    [] result = "TooLow" -> "must_exceed"
    [] result = "BelowStart" -> "must_be_at_least"

\* The arms Err(BidError::Storage) and Err(other) of handle_bid_message: the
\* reply is sent (`?`), and then NotFound and Closed reset the dialogue.
RejectBid(c, t, result, value) ==
  \E ok \in BOOLEAN :
    /\ Return(c, [t EXCEPT !.result = result, !.value = value,
                           !.reply = BidReply(result)],
              IF ok THEN "Ok" ELSE "Err")
    /\ dialogue' =
         IF ok /\ result \in {"NotFound", "Closed"}
         THEN [dialogue EXCEPT ![c] = Idle]
         ELSE dialogue

\* bid_check without the start price check of the first bid
bid_check_no_start(previous_best, amount_cents, start_price) ==
  IF previous_best # None /\ amount_cents <= previous_best[2]
  THEN [result |-> "TooLow", value |-> previous_best[2]]
  ELSE [result |-> "Ok", value |-> 0]

\* bid_check with `<` for `<=`: a bid equal to the best bid passes
bid_check_equal_passes(previous_best, amount_cents, start_price) ==
  IF previous_best # None
  THEN IF amount_cents < previous_best[2]
       THEN [result |-> "TooLow", value |-> previous_best[2]]
       ELSE [result |-> "Ok", value |-> 0]
  ELSE IF amount_cents < start_price
       THEN [result |-> "BelowStart", value |-> start_price]
       ELSE [result |-> "Ok", value |-> 0]

\* The checks of validate_bid after both reads
bid_check(previous_best, amount_cents, start_price) ==
  IF previous_best # None
  THEN IF amount_cents <= previous_best[2]
       THEN [result |-> "TooLow", value |-> previous_best[2]]
       ELSE [result |-> "Ok", value |-> 0]
  ELSE IF amount_cents < start_price
       THEN [result |-> "BelowStart", value |-> start_price]
       ELSE [result |-> "Ok", value |-> 0]

\* handle_bid_message with a validation that looks for the item first: a
\* missing item is reported before the amount is parsed
handle_bid_message_item_first(c, u, text) ==
  /\ Free(c)
  /\ dialogue[c].kind = "PlaceBid"
  /\ LET draft == dialogue[c]
         t == [NewTask("bid", c, u) EXCEPT !.item_id = draft.item_id]
         amount_text == Trim(text)
         parsed == parse_money_to_cents(amount_text)
     IN  IF u # draft.user
         THEN Reply(c, t, "bid_in_progress") /\ UNCHANGED dialogue
         ELSE IF amount_text = <<>>
         THEN Reply(c, t, "provide_bid") /\ UNCHANGED dialogue
         ELSE IF ~get_item(draft.item_id).present
         THEN RejectBid(c, t, "NotFound", 0)
         ELSE IF ~parsed.ok
         THEN RejectBid(c, t, "InvalidAmount", 0)
         ELSE /\ Continue(c, [t EXCEPT !.pc = "get_item", !.amount_cents = parsed.cents])
              /\ UNCHANGED dialogue
  /\ UNCHANGED <<items, bids, notifications_disabled>>
  /\ UNCHANGED registry

\* A message arrives in a chat whose dialogue is PlaceBid: handle_bid_message
\* up to the first storage call of validate_bid.
handle_bid_message(c, u, text) ==
  /\ Free(c)
  /\ dialogue[c].kind = "PlaceBid"
  /\ LET draft == dialogue[c]
         t == [NewTask("bid", c, u) EXCEPT !.item_id = draft.item_id]
         amount_text == Trim(text)
         parsed == parse_money_to_cents(amount_text)
     IN  IF u # draft.user
         THEN Reply(c, t, "bid_in_progress") /\ UNCHANGED dialogue
         ELSE IF amount_text = <<>>
         THEN Reply(c, t, "provide_bid") /\ UNCHANGED dialogue
         ELSE IF ~parsed.ok
         THEN RejectBid(c, t, "InvalidAmount", 0)
         ELSE /\ Continue(c, [t EXCEPT !.pc = "get_item", !.amount_cents = parsed.cents])
              /\ UNCHANGED dialogue
  /\ UNCHANGED <<items, bids, notifications_disabled>>
  /\ UNCHANGED registry

\* validate_bid: ctx.db().get_item(item_id).await?
validate_bid_get_item(c) ==
  /\ task[c].pc = "get_item"
  /\ LET t == task[c]
         item == get_item(t.item_id)
     IN  \/ RejectBid(c, [t EXCEPT !.failed = "get_item"], DbError, 0)
         \/ IF ~item.present THEN RejectBid(c, t, "NotFound", 0)
            ELSE IF ~item.is_open THEN RejectBid(c, t, "Closed", 0)
            ELSE /\ Continue(c, [t EXCEPT !.pc = "best_bid", !.item = item])
                 /\ UNCHANGED dialogue
  /\ UNCHANGED <<items, bids, notifications_disabled>>
  /\ UNCHANGED registry

\* validate_bid_best_bid of a handler that inserts the bid before it checks it
validate_bid_insert_first(c) ==
  /\ task[c].pc = "best_bid"
  /\ LET t == task[c]
         previous_best == best_bid_with_bidder(t.item_id)
         verdict == bid_check(previous_best, t.amount_cents, t.item.start_price)
         read == [t EXCEPT !.previous_best = previous_best]
     IN  /\ bids' = place_bid(t.item_id, t.sender, t.amount_cents)
         /\ IF verdict.result # "Ok"
            THEN RejectBid(c, read, verdict.result, verdict.value)
            ELSE /\ Continue(c, [read EXCEPT !.pc = "confirm", !.result = "Ok",
                                             !.stored = TRUE])
                 /\ dialogue' = [dialogue EXCEPT ![c] = Idle]
  /\ UNCHANGED <<items, notifications_disabled>>
  /\ UNCHANGED registry

\* validate_bid: ctx.db().best_bid_with_bidder(item_id).await? and the checks
validate_bid_best_bid(c) ==
  /\ task[c].pc = "best_bid"
  /\ LET t == task[c]
         previous_best == best_bid_with_bidder(t.item_id)
         verdict == bid_check(previous_best, t.amount_cents, t.item.start_price)
         read == [t EXCEPT !.previous_best = previous_best]
     IN  \/ RejectBid(c, [t EXCEPT !.failed = "best_bid_with_bidder"], DbError, 0)
         \/ IF verdict.result # "Ok"
            THEN RejectBid(c, read, verdict.result, verdict.value)
            ELSE /\ Continue(c, [read EXCEPT !.pc = "place_bid", !.result = "Ok"])
                 /\ UNCHANGED dialogue
  /\ UNCHANGED <<items, bids, notifications_disabled>>
  /\ UNCHANGED registry

\* handle_bid_message: ctx.db().place_bid(..).await, then dialogue.reset() on
\* success and the retry-later reply on failure.  The insert fails when the
\* storage fails and when the item row is gone.
handle_bid_place_bid(c) ==
  /\ task[c].pc = "place_bid"
  /\ LET t == task[c] IN
     \/ /\ Reply(c, [t EXCEPT !.failed = "place_bid"], "retry_later")
        /\ UNCHANGED <<bids, dialogue>>
     \/ /\ get_item(t.item_id).present
        /\ bids' = place_bid(t.item_id, t.sender, t.amount_cents)
        /\ dialogue' = [dialogue EXCEPT ![c] = Idle]
        /\ Continue(c, [t EXCEPT !.pc = "confirm", !.stored = TRUE])
  /\ UNCHANGED <<items, notifications_disabled>>
  /\ UNCHANGED registry

\* handle_bid_message: the best bid is read again (`?`), is_highest is
\* computed and the confirmation is sent (`?`).
handle_bid_confirm(c) ==
  /\ task[c].pc = "confirm"
  /\ LET t == task[c]
         highest == best_bid_with_bidder(t.item_id)
         is_highest == /\ highest # None
                       /\ highest[1] = t.sender
                       /\ highest[2] = t.amount_cents
         told == [t EXCEPT !.highest = highest, !.is_highest = is_highest,
                           !.reply = IF is_highest THEN "bid_placed_highest"
                                     ELSE "bid_placed"]
     IN  \/ Return(c, [t EXCEPT !.failed = "highest"], "Err")
         \/ Return(c, told, "Err")
         \/ Continue(c, [told EXCEPT !.pc = "notify_outbid"])
  /\ UNCHANGED <<items, bids, notifications_disabled, dialogue>>
  /\ UNCHANGED registry

\* notify_outbid_user and notify_seller: the mute preference of the recipient
\* is read (`?`), and unless muted the notice is sent (`?`).  The outcomes:
\* "error" (the preference could not be read), "muted", "sent", and "failed"
\* (the delivery failed).
notify_user(recipient) ==
  {"error"} \cup (IF notifications_disabled[recipient] THEN {"muted"}
                  ELSE {"sent", "failed"})

\* handle_bid_notify_outbid with `?` on notify_outbid_user: its error is returned
handle_bid_notify_outbid_propagates(c) ==
  /\ task[c].pc = "notify_outbid"
  /\ LET t == task[c] IN
     \E outcome \in IF /\ t.is_highest
                       /\ t.previous_best # None
                       /\ t.previous_best[1] # t.sender
                    THEN notify_user(t.previous_best[1])
                    ELSE {"none"} :
       IF outcome \in {"error", "failed"}
       THEN Return(c, [t EXCEPT !.outbid = outcome], "Err")
       ELSE Continue(c, [t EXCEPT !.pc = "notify_seller", !.outbid = outcome])
  /\ UNCHANGED <<items, bids, notifications_disabled, dialogue>>
  /\ UNCHANGED registry

\* handle_bid_message: the outbid notice, whose failure is logged
handle_bid_notify_outbid(c) ==
  /\ task[c].pc = "notify_outbid"
  /\ LET t == task[c] IN
     \E outcome \in IF /\ t.is_highest
                       /\ t.previous_best # None
                       /\ t.previous_best[1] # t.sender
                    THEN notify_user(t.previous_best[1])
                    ELSE {"none"} :
       Continue(c, [t EXCEPT !.pc = "notify_seller", !.outbid = outcome])
  /\ UNCHANGED <<items, bids, notifications_disabled, dialogue>>
  /\ UNCHANGED registry

\* handle_bid_message: the seller notice, whose result is dropped; the item is
\* then shown again (a failure there is logged) and the handler returns Ok.
handle_bid_notify_seller(c) ==
  /\ task[c].pc = "notify_seller"
  /\ LET t == task[c] IN
     \E outcome \in notify_user(t.item.seller_tg_id) :
       Return(c, [t EXCEPT !.seller = outcome], "Ok")
  /\ UNCHANGED <<items, bids, notifications_disabled, dialogue>>
  /\ UNCHANGED registry

(***************************************************************************)
(* Inline actions (handle_callback_query).  ensure_user_record is the      *)
(* first storage call of every inline action; when a storage call fails    *)
(* the handler returns the error.                                          *)
(***************************************************************************)
\* bid:<itemId>
callback_bid(c, u, item_id) ==
  /\ Free(c)
  /\ LET t == [NewCallback("callback", c, u) EXCEPT !.item_id = item_id, !.callback = "bid"]
         item == get_item(item_id)
     IN  \/ Return(c, t, "Err") /\ UNCHANGED <<dialogue, users>>
         \/ /\ users' = upsert_user(u)
            /\ IF item.present /\ item.is_open
               THEN /\ dialogue' = [dialogue EXCEPT ![c] = PlaceBid(item_id, u)]
                    /\ SendAndAnswer(c, t, "enter_your_bid")
               ELSE /\ Answer(c, t, IF item.present THEN "auction_is_closed"
                                    ELSE "item_not_found")
                    /\ UNCHANGED dialogue
  /\ UNCHANGED <<items, bids, notifications_disabled>>
  /\ UNCHANGED <<categories, favorites, new_items, serial>>

\* The payloads no arm of handle_callback_query acts on: no data, data without
\* a colon, a prefix that is none of the known ones, a known prefix with a
\* value its arm does not know (menu:<other>, settings:<other>)
OtherPayloads == {"no_data", "no_colon", "unknown_prefix", "unknown_value"}

\* An inline action with such a payload: the user is recorded and the action
\* is acknowledged without a text.
callback_other(c, u, data) ==
  /\ Free(c)
  /\ LET t == [NewCallback("callback", c, u) EXCEPT !.callback = "other", !.arg = data] IN
     \/ Return(c, t, "Err") /\ UNCHANGED users
     \/ users' = upsert_user(u) /\ Answer(c, t, "no_text")
  /\ UNCHANGED <<items, bids, notifications_disabled, dialogue>>
  /\ UNCHANGED <<categories, favorites, new_items, serial>>

\* callback_admin without the is_admin check of the admin branch
callback_admin_unchecked(c, u, value) ==
  /\ Free(c)
  /\ LET t == [NewCallback("callback", c, u) EXCEPT !.callback = "admin", !.arg = value] IN
     \/ Return(c, t, "Err") /\ UNCHANGED <<dialogue, users>>
     \/ /\ users' = upsert_user(u)
        /\ dialogue' = [dialogue EXCEPT ![c] = AdminDraft(value, u)]
        /\ SendAndAnswer(c, t, "awaiting_input")
  /\ UNCHANGED <<items, bids, notifications_disabled>>
  /\ UNCHANGED <<categories, favorites, new_items, serial>>

\* admin:add_category, add_item, remove_item, remove_category, close_item and
\* broadcast: the draft is stored and the admin is asked for its input.  (For
\* add_item the category picker is sent, which lists the categories first.)
callback_admin(c, u, value) ==
  /\ Free(c)
  /\ LET t == [NewCallback("callback", c, u) EXCEPT !.callback = "admin", !.arg = value] IN
     \/ Return(c, t, "Err") /\ UNCHANGED <<dialogue, users>>
     \/ /\ users' = upsert_user(u)
        /\ IF u \notin Admins
           THEN Answer(c, t, "admins_only") /\ UNCHANGED dialogue
           ELSE /\ dialogue' = [dialogue EXCEPT ![c] = AdminDraft(value, u)]
                /\ SendAndAnswer(c, t, "awaiting_input")
  /\ UNCHANGED <<items, bids, notifications_disabled>>
  /\ UNCHANGED <<categories, favorites, new_items, serial>>

\* settings:toggle_notifications.  Only the user writes the preference, from
\* the one chat of the user, so the read and the write are one step.
callback_toggle_notifications(c, u) ==
  /\ Free(c)
  /\ LET t == [NewCallback("callback", c, u) EXCEPT !.callback = "settings",
                                               !.arg = "toggle_notifications"]
     IN
     \/ Return(c, t, "Err") /\ UNCHANGED <<notifications_disabled, users>>
     \/ /\ users' = upsert_user(u)
        /\ notifications_disabled' =
             [notifications_disabled EXCEPT ![u] = ~notifications_disabled[u]]
        /\ SendAndAnswer(c, t, "notifications_toggled")
  /\ UNCHANGED <<items, bids, dialogue>>
  /\ UNCHANGED <<categories, favorites, new_items, serial>>

(***************************************************************************)
(* Closing and removing an item.                                           *)
(***************************************************************************)
\* The part of handle_close_item_message and handle_remove_item_message before
\* the first storage call; `next` is the step of that call.
AdminIdInput(c, u, text, handler, next) ==
  LET admin_tg_id == dialogue[c].user
      t == [NewTask(handler, c, u) EXCEPT !.cancel = IsCancel(Trim(text))]
      raw_text == Trim(text)
      parsed == parse_i64(raw_text)
  IN  IF u # admin_tg_id
      THEN Reply(c, t, "only_the_admin") /\ UNCHANGED dialogue
      ELSE IF raw_text = <<>>
      THEN Reply(c, t, "send_the_item_id") /\ UNCHANGED dialogue
      ELSE IF IsCancel(raw_text)
      THEN /\ dialogue' = [dialogue EXCEPT ![c] = Idle]
           /\ Reply(c, t, "cancelled")
      ELSE IF ~parsed.ok
      THEN Reply(c, t, "numeric_item_id") /\ UNCHANGED dialogue
      ELSE /\ Continue(c, [t EXCEPT !.pc = next, !.item_id = parsed.value])
           /\ UNCHANGED dialogue

handle_close_item_message(c, u, text) ==
  /\ Free(c)
  /\ dialogue[c].kind = "CloseItem"
  /\ AdminIdInput(c, u, text, "close", "close_get_item")
  /\ UNCHANGED <<items, bids, notifications_disabled>>
  /\ UNCHANGED registry

\* close_get_item without the is_open test: a closed item is closed again
close_get_item_no_open_check(c) ==
  /\ task[c].pc = "close_get_item"
  /\ LET t == task[c]
         item == get_item(t.item_id)
     IN  \/ Return(c, t, "Err")
         \/ IF ~item.present
            THEN Reply(c, t, "item_not_found")
            ELSE Continue(c, [t EXCEPT !.pc = "close_item", !.item = item])
  /\ UNCHANGED <<items, bids, notifications_disabled, dialogue>>
  /\ UNCHANGED registry

\* handle_close_item_message: ctx.db().get_item(item_id).await?
close_get_item(c) ==
  /\ task[c].pc = "close_get_item"
  /\ LET t == task[c]
         item == get_item(t.item_id)
     IN  \/ Return(c, t, "Err") /\ UNCHANGED dialogue
         \/ IF ~item.present
            THEN Reply(c, t, "item_not_found") /\ UNCHANGED dialogue
            ELSE IF ~item.is_open
            THEN /\ dialogue' = [dialogue EXCEPT ![c] = Idle]
                 /\ Reply(c, t, "already_closed")
            ELSE /\ Continue(c, [t EXCEPT !.pc = "close_item", !.item = item])
                 /\ UNCHANGED dialogue
  /\ UNCHANGED <<items, bids, notifications_disabled>>
  /\ UNCHANGED registry

\* handle_close_item_message: ctx.db().close_item(item_id).await?, the reset and
\* the reply (`?`)
close_close_item(c) ==
  /\ task[c].pc = "close_item"
  /\ LET t == task[c] IN
     \/ Return(c, t, "Err") /\ UNCHANGED <<items, dialogue>>
     \/ /\ items' = close_item(t.item_id)
        /\ dialogue' = [dialogue EXCEPT ![c] = Idle]
        /\ \/ Continue(c, [t EXCEPT !.pc = "notify_closed", !.reply = "item_closed"])
           \/ Return(c, [t EXCEPT !.reply = "item_closed"], "Err")
  /\ UNCHANGED <<bids, notifications_disabled>>
  /\ UNCHANGED registry

\* The text of notify_item_closed for one recipient
closed_notice(user_id, winning_bid) ==
  [to |-> user_id,
   kind |-> IF winning_bid = None THEN "closed_no_bids"
            ELSE IF user_id = winning_bid[1] THEN "you_won"
            ELSE "closed_final_price",
   amount |-> IF winning_bid = None THEN 0 ELSE winning_bid[2]]

\* notify_item_closed: db.best_bid_with_bidder(item.id).await?  An error of
\* notify_item_closed is logged by handle_close_item_message, which returns Ok.
close_notify(c) ==
  /\ task[c].pc = "notify_closed"
  /\ LET t == task[c] IN
     \/ Return(c, [t EXCEPT !.failed = "winning_bid"], "Ok")
     \/ Continue(c, [t EXCEPT !.pc = "notify_recipients",
                              !.winning_bid = best_bid_with_bidder(t.item_id)])
  /\ UNCHANGED <<items, bids, notifications_disabled, dialogue>>
  /\ UNCHANGED registry

\* close_notify_recipients where a failed delivery ends the loop: nothing is
\* sent to the recipients after the one that failed
close_notify_recipients_stop_on_failure(c) ==
  /\ task[c].pc = "notify_recipients"
  /\ LET t == task[c]
         recipients == list_item_bidder_ids(t.item_id)
                         \cup list_item_favorite_user_ids(t.item_id)
         allowed == filter_notifications_allowed(recipients)
     IN  \/ Return(c, [t EXCEPT !.failed = "recipients"], "Ok")
         \/ Return(c, [t EXCEPT !.notices = {closed_notice(u, t.winning_bid) : u \in allowed}],
                   "Ok")
         \/ \E sent \in SUBSET allowed : \E u \in sent :
              Return(c, [t EXCEPT !.notices = {closed_notice(v, t.winning_bid) : v \in sent},
                                  !.undelivered = {u}], "Ok")
  /\ UNCHANGED <<items, bids, notifications_disabled, dialogue>>
  /\ UNCHANGED registry

\* notify_item_closed: the bidders and the favoriters of the item are listed,
\* the muted ones are filtered out, and each of the others is sent its text; a
\* failed delivery is logged and the loop goes on.
close_notify_recipients(c) ==
  /\ task[c].pc = "notify_recipients"
  /\ LET t == task[c]
         recipients == list_item_bidder_ids(t.item_id)
                         \cup list_item_favorite_user_ids(t.item_id)
         allowed == filter_notifications_allowed(recipients)
     IN  \/ Return(c, [t EXCEPT !.failed = "recipients"], "Ok")
         \/ \E undelivered \in SUBSET allowed :
              Return(c, [t EXCEPT !.notices = {closed_notice(u, t.winning_bid) : u \in allowed},
                                  !.undelivered = undelivered], "Ok")
  /\ UNCHANGED <<items, bids, notifications_disabled, dialogue>>
  /\ UNCHANGED registry

handle_remove_item_message(c, u, text) ==
  /\ Free(c)
  /\ dialogue[c].kind = "RemoveItem"
  /\ AdminIdInput(c, u, text, "remove", "delete_item")
  /\ UNCHANGED <<items, bids, notifications_disabled>>
  /\ UNCHANGED registry

\* handle_remove_item_message: ctx.db().delete_item(item_id).await?
remove_delete_item(c) ==
  /\ task[c].pc = "delete_item"
  /\ LET t == task[c] IN
     \/ Return(c, t, "Err") /\ UNCHANGED <<items, bids, dialogue, favorites, new_items>>
     \/ IF get_item(t.item_id).present
        THEN /\ items' = delete_item_rows(t.item_id)
             /\ bids' = delete_item_bids(t.item_id)
             /\ favorites' = delete_item_favorites(t.item_id)
             /\ new_items' = new_items \ {t.item_id}
             /\ dialogue' = [dialogue EXCEPT ![c] = Idle]
             /\ Reply(c, t, "item_removed")
        ELSE /\ Reply(c, t, "item_not_found")
             /\ UNCHANGED <<items, bids, dialogue, favorites, new_items>>
  /\ UNCHANGED <<notifications_disabled, categories, users, serial>>

(***************************************************************************)
(* Commands.  command_branch is the first branch of the message handler,   *)
(* so a command is handled whatever the conversation holds.                *)
(***************************************************************************)
\* /start: dialogue.reset(), ensure_user_record (`?`), the main menu (`?`)
handle_start(c, u) ==
  /\ Free(c)
  /\ LET t == NewCallback("start", c, u) IN
     /\ dialogue' = [dialogue EXCEPT ![c] = Idle]
     /\ \/ Return(c, t, "Err") /\ UNCHANGED users
        \/ users' = upsert_user(u) /\ Reply(c, t, "main_menu")
  /\ UNCHANGED <<items, bids, notifications_disabled>>
  /\ UNCHANGED <<categories, favorites, new_items, serial>>

(***************************************************************************)
(* Item creation (handle_additem_message) and the category picker.         *)
(***************************************************************************)
\* An insert that returns a row and stores none
create_category_unstored(name) ==
  [category |-> CategoryRow(serial.categories + 1, name),
   categories |-> categories, serial |-> serial]

\* Db::create_category: a plain INSERT that returns the row (the statement
\* names no conflict to ignore); the table and the sequence after it
create_category(name) ==
  LET id == serial.categories + 1 IN
  [category |-> CategoryRow(id, name),
   categories |-> categories \cup {CategoryRow(id, name)},
   serial |-> [serial EXCEPT !.categories = id]]

\* The stage moves to Title without the category being recorded
WithCategory_stage_only(draft, category) ==
  [draft EXCEPT !.stage = "Title"]

\* The draft with a category chosen
WithCategory(draft, category) ==
  [draft EXCEPT !.category_id = Some(category.id),
                !.category_name = Some(category.name), !.stage = "Title"]

\* The title is recorded and the stage stays Title
WithTitle_same_stage(draft, title) ==
  [draft EXCEPT !.title = Some(title)]

\* The draft with its title given
WithTitle(draft, title) ==
  [draft EXCEPT !.title = Some(title), !.stage = "Description"]

\* handle_additem_message at stage StartPrice with a well-formed price:
\* Db::create_item (`?`), dialogue.reset(), the reply (`?`).  The insert fails
\* when the storage fails and when the category row is gone.
additem_create_item(c, t, draft, value) ==
  LET id == serial.items + 1
      created == [t EXCEPT !.item_id = id, !.amount_cents = value, !.stored = TRUE]
      row(image_file_ids) ==
        create_item(draft.user, draft.category_id[1], draft.title[1],
                    draft.description, value, image_file_ids)
  IN
  \* `.context("missing category during draft completion")?`, and the same
  \* for the title, as the arguments of the call are built
  IF draft.category_id = None \/ draft.title = None
  THEN /\ Return(c, [t EXCEPT !.failed = IF draft.category_id = None
                                         THEN "missing_category"
                                         ELSE "missing_title"], "Err")
       /\ UNCHANGED <<dialogue, items, new_items, serial>>
  ELSE
  \/ /\ Return(c, [t EXCEPT !.failed = "create_item"], "Err")
     /\ UNCHANGED <<dialogue, items, new_items, serial>>
  \/ /\ id \in ItemIds
     /\ \E category \in categories : category.id = draft.category_id[1]
     /\ new_items' = new_items \cup {id}
     /\ serial' = [serial EXCEPT !.items = id]
        \* the row is inserted, and then the insert of an image fails: the
        \* row and the images inserted before it stay (the inserts run on the
        \* pool, one statement each)
     /\ \/ \E k \in 1 .. Len(draft.image_file_ids) :
             /\ items' = [items EXCEPT ![id] = row(SubSeq(draft.image_file_ids, 1, k - 1))]
             /\ Return(c, [created EXCEPT !.failed = "item_images"], "Err")
             /\ UNCHANGED dialogue
        \/ /\ items' = [items EXCEPT ![id] = row(draft.image_file_ids)]
           /\ dialogue' = [dialogue EXCEPT ![c] = Idle]
           /\ Reply(c, created, "item_created")

\* An Err arm that stores the draft as the handler holds it, with the photo
\* of the message
additem_invalid_price_stored(c, t, draft) ==
  /\ dialogue' = [dialogue EXCEPT ![c] = draft]
  /\ Reply(c, t, "invalid_price")
  /\ UNCHANGED <<categories, items, new_items, serial>>

\* handle_additem_message at stage StartPrice with a text that is no price:
\* the Err arm sends the invalid-price reply (`?`) and nothing else
additem_invalid_price(c, t, draft) ==
  /\ Reply(c, t, "invalid_price")
  /\ UNCHANGED <<dialogue, categories, items, new_items, serial>>

\* handle_additem_message past the owner, photo and cancel checks: the text is
\* the input of the draft's stage
additem_stage(c, t, draft, msg) ==
  LET text == Trim(msg.text)
      price == parse_money_to_cents(text)
      existing == find_category_by_name(text)
      Update(d) == dialogue' = [dialogue EXCEPT ![c] = d]
  IN  CASE draft.stage = "Category" ->
             \* ensure_category: Db::find_category_by_name (`?`), and the
             \* row when there is one; Db::create_category is the next await
             \/ /\ Return(c, [t EXCEPT !.failed = "ensure_category"], "Err")
                /\ UNCHANGED <<dialogue, categories, items, new_items, serial>>
             \/ /\ existing # None
                /\ Update(WithCategory(draft, existing[1]))
                /\ Reply(c, [t EXCEPT !.name = text, !.category = existing[1].id,
                                      !.existing = TRUE], "enter_title")
                /\ UNCHANGED <<categories, items, new_items, serial>>
             \/ /\ existing = None
                /\ serial.categories < MaxCategories
                /\ Continue(c, [t EXCEPT !.pc = "ensure_category", !.name = text,
                                         !.photo = msg.photo])
                /\ UNCHANGED <<dialogue, categories, items, new_items, serial>>
        [] draft.stage = "Title" ->
             /\ Update(WithTitle(draft, text))
             /\ Reply(c, t, "enter_description")
             /\ UNCHANGED <<categories, items, new_items, serial>>
        [] draft.stage = "Description" ->
             /\ Update([draft EXCEPT !.description =
                                       IF text = <<"-">> THEN None ELSE Some(text),
                                     !.stage = "StartPrice"])
             /\ Reply(c, t, "enter_start_price")
             /\ UNCHANGED <<categories, items, new_items, serial>>
        [] draft.stage = "StartPrice" ->
             IF price.ok
             THEN /\ additem_create_item(c, t, draft, price.cents)
                  /\ UNCHANGED categories
             ELSE additem_invalid_price(c, t, draft)

\* The photo of the message joins the draft unless the draft has it already
WithPhoto(draft, photo) ==
  IF photo # 0 /\ \A k \in 1 .. Len(draft.image_file_ids) : draft.image_file_ids[k] # photo
  THEN [draft EXCEPT !.image_file_ids = Append(@, photo)]
  ELSE draft

\* handle_additem_message where the cancel keyword is input like any other
handle_additem_message_no_cancel(c, u, msg) ==
  /\ Free(c)
  /\ dialogue[c].kind = "AddItem"
  /\ LET t == [NewTask("additem", c, u) EXCEPT !.cancel = IsCancel(Trim(msg.text))]
         draft == WithPhoto(dialogue[c], msg.photo)
         text == Trim(msg.text)
     IN  IF u # dialogue[c].user
         THEN /\ Reply(c, t, "only_the_admin")
              /\ UNCHANGED <<dialogue, categories, items, new_items, serial>>
         ELSE IF text = <<>>
         THEN /\ dialogue' = [dialogue EXCEPT ![c] = draft]
              /\ IF draft # dialogue[c] THEN Reply(c, t, "added_photo") ELSE Return(c, t, "Ok")
              /\ UNCHANGED <<categories, items, new_items, serial>>
         ELSE additem_stage(c, t, draft, msg)
  /\ UNCHANGED <<bids, notifications_disabled, favorites, users>>

\* handle_additem_message: the owner check, the photo, a message without
\* text, the cancel keyword, then the input of the stage
handle_additem_message(c, u, msg) ==
  /\ Free(c)
  /\ dialogue[c].kind = "AddItem"
  /\ LET t == [NewTask("additem", c, u) EXCEPT !.cancel = IsCancel(Trim(msg.text))]
         draft == WithPhoto(dialogue[c], msg.photo)
         text == Trim(msg.text)
     IN  IF u # dialogue[c].user
         THEN /\ Reply(c, t, "only_the_admin")
              /\ UNCHANGED <<dialogue, categories, items, new_items, serial>>
         ELSE IF text = <<>>
         THEN /\ dialogue' = [dialogue EXCEPT ![c] = draft]
              /\ IF draft # dialogue[c] THEN Reply(c, t, "added_photo") ELSE Return(c, t, "Ok")
              /\ UNCHANGED <<categories, items, new_items, serial>>
         ELSE IF IsCancel(text)
         THEN /\ dialogue' = [dialogue EXCEPT ![c] = Idle]
              /\ Reply(c, t, "cancelled")
              /\ UNCHANGED <<categories, items, new_items, serial>>
         ELSE additem_stage(c, t, draft, msg)
  /\ UNCHANGED <<bids, notifications_disabled, favorites, users>>

\* pickcat:new and pickcat:<id>; `value` is the text after the colon
callback_pickcat(c, u, value) ==
  /\ Free(c)
  /\ LET new == value = <<"n", "e", "w">>
         category_id == parse_i64(value)
         t == [NewCallback("callback", c, u) EXCEPT !.callback = "pickcat",
                                              !.arg = IF new THEN "new" ELSE "id"]
         state == dialogue[c]
         found == {row \in categories : category_id.ok /\ row.id = category_id.value}
     IN  \/ Return(c, t, "Err") /\ UNCHANGED <<dialogue, users>>
         \/ /\ users' = upsert_user(u)
            /\ IF new
               THEN /\ dialogue' = [dialogue EXCEPT ![c] =
                         IF state.kind = "AddItem" THEN state ELSE AddItemDraft_new(u)]
                    /\ SendAndAnswer(c, t, "send_new_category_name")
               ELSE IF ~category_id.ok
               THEN Answer(c, t, "no_text") /\ UNCHANGED dialogue
               ELSE IF found # {}
               THEN /\ dialogue' = [dialogue EXCEPT ![c] =
                         WithCategory(IF state.kind = "AddItem" THEN state
                                      ELSE AddItemDraft_new(u),
                                      CHOOSE row \in found : TRUE)]
                    /\ SendAndAnswer(c, t, "enter_title")
               ELSE Answer(c, t, "category_not_found") /\ UNCHANGED dialogue
  /\ UNCHANGED <<items, bids, notifications_disabled>>
  /\ UNCHANGED <<categories, favorites, new_items, serial>>

(***************************************************************************)
(* The single-step admin drafts AddCategory, RemoveCategory and Broadcast, *)
(* the new-lots announcement, and the favorites.                           *)
(***************************************************************************)
\* handle_add_category_message
handle_add_category_message(c, u, text) ==
  /\ Free(c)
  /\ dialogue[c].kind = "AddCategory"
  /\ LET t == [NewTask("add_category", c, u) EXCEPT !.cancel = IsCancel(Trim(text))]
         raw_text == Trim(text)
         existing == find_category_by_name(raw_text)
     IN  IF u # dialogue[c].user
         THEN Reply(c, t, "only_the_admin") /\ UNCHANGED <<dialogue, categories, serial>>
         ELSE IF raw_text = <<>>
         THEN Reply(c, t, "send_the_name") /\ UNCHANGED <<dialogue, categories, serial>>
         ELSE IF IsCancel(raw_text)
         THEN /\ dialogue' = [dialogue EXCEPT ![c] = Idle]
              /\ Reply(c, t, "cancelled")
              /\ UNCHANGED <<categories, serial>>
         \* ensure_category: Db::find_category_by_name (`?`), and the row
         \* when there is one; Db::create_category is the next await
         ELSE \/ /\ Return(c, [t EXCEPT !.failed = "ensure_category"], "Err")
                 /\ UNCHANGED <<dialogue, categories, serial>>
              \/ /\ existing # None
                 /\ dialogue' = [dialogue EXCEPT ![c] = Idle]
                 /\ Reply(c, [t EXCEPT !.name = raw_text, !.category = existing[1].id,
                                         !.existing = TRUE], "category_exists")
                 /\ UNCHANGED <<categories, serial>>
              \/ /\ existing = None
                 /\ serial.categories < MaxCategories
                 /\ Continue(c, [t EXCEPT !.pc = "ensure_category", !.name = raw_text])
                 /\ UNCHANGED <<dialogue, categories, serial>>
  /\ UNCHANGED <<items, bids, notifications_disabled, favorites, users, new_items>>

\* ensure_category with no row of that name found, in handle_add_category_message
\* and at stage Category of handle_additem_message: Db::create_category
\* (`?`), then the handler goes on with the row as it does with a row found.
ensure_category_create(c) ==
  /\ task[c].pc = "ensure_category"
  /\ LET t == task[c]
         created == create_category(t.name)
     IN  \/ /\ Return(c, [t EXCEPT !.failed = "ensure_category"], "Err")
            /\ UNCHANGED <<dialogue, categories, serial>>
         \/ /\ categories' = created.categories
            /\ serial' = created.serial
            /\ IF t.handler = "additem"
               THEN /\ dialogue' = [dialogue EXCEPT ![c] =
                         WithCategory(WithPhoto(t.draft, t.photo), created.category)]
                    /\ Reply(c, [t EXCEPT !.category = created.category.id],
                             "enter_title")
               ELSE /\ dialogue' = [dialogue EXCEPT ![c] = Idle]
                    /\ Reply(c, [t EXCEPT !.category = created.category.id],
                             "category_created")
  /\ UNCHANGED <<items, bids, notifications_disabled, favorites, users, new_items>>

\* handle_remove_category_message
handle_remove_category_message(c, u, text) ==
  /\ Free(c)
  /\ dialogue[c].kind = "RemoveCategory"
  /\ LET t == [NewTask("remove_category", c, u) EXCEPT !.cancel = IsCancel(Trim(text))]
         raw_text == Trim(text)
         category == find_category_by_name(raw_text)
         gone == InCategory(category[1].id)
         Unchanged == UNCHANGED <<dialogue, categories, items, bids, favorites, new_items>>
     IN  IF u # dialogue[c].user
         THEN Reply(c, t, "only_the_admin") /\ Unchanged
         ELSE IF raw_text = <<>>
         THEN Reply(c, t, "send_the_name") /\ Unchanged
         ELSE IF IsCancel(raw_text)
         THEN /\ dialogue' = [dialogue EXCEPT ![c] = Idle]
              /\ Reply(c, t, "cancelled")
              /\ UNCHANGED <<categories, items, bids, favorites, new_items>>
         ELSE \/ Return(c, [t EXCEPT !.failed = "delete_category"], "Err") /\ Unchanged
              \/ IF category = None
                 THEN Reply(c, t, "category_not_found") /\ Unchanged
                 ELSE /\ categories' = categories \ {category[1]}
                      /\ items' = [i \in ItemIds |-> IF i \in gone THEN NoItem ELSE items[i]]
                      /\ bids' = [i \in ItemIds |-> IF i \in gone THEN <<>> ELSE bids[i]]
                      /\ favorites' = {f \in favorites : f[2] \notin gone}
                      /\ new_items' = new_items \ gone
                      /\ dialogue' = [dialogue EXCEPT ![c] = Idle]
                      /\ Reply(c, t, "category_removed")
  /\ UNCHANGED <<notifications_disabled, users, serial>>

\* broadcast_text that skips the users who muted notifications
broadcast_notices_unmuted(user_ids, kind) ==
  {[to |-> id, kind |-> kind, amount |-> 0] :
     id \in {u \in user_ids : ~notifications_disabled[u]}}

\* broadcast_text: the text is sent to every user of the list; a failed
\* delivery is logged and the loop goes on
broadcast_notices(user_ids, kind) == {[to |-> id, kind |-> kind, amount |-> 0] : id \in user_ids}

\* handle_broadcast_message
handle_broadcast_message(c, u, text) ==
  /\ Free(c)
  /\ dialogue[c].kind = "Broadcast"
  /\ LET t == [NewTask("broadcast", c, u) EXCEPT !.cancel = IsCancel(Trim(text))]
         recipients == list_user_ids
     IN  IF u # dialogue[c].user
         THEN Reply(c, t, "only_the_admin") /\ UNCHANGED dialogue
         ELSE IF text = <<>>
         THEN Reply(c, t, "send_the_announcement") /\ UNCHANGED dialogue
         ELSE \/ Return(c, [t EXCEPT !.failed = "list_user_ids"], "Err") /\ UNCHANGED dialogue
              \/ /\ dialogue' = [dialogue EXCEPT ![c] = Idle]
                 /\ IF recipients = {}
                    THEN Reply(c, t, "no_users")
                    ELSE \E undelivered \in SUBSET recipients :
                           Reply(c, [t EXCEPT !.notices = broadcast_notices(recipients, "broadcast"),
                                              !.undelivered = undelivered],
                                 "broadcast_sent")
  /\ UNCHANGED <<items, bids, notifications_disabled>>
  /\ UNCHANGED registry

\* admin:notify_new: dialogue.reset(), list_new_items (`?`), list_user_ids
\* (`?`), broadcast_text, clear_new_item_flags (`?`), the reply (`?`)
callback_admin_notify_new(c, u) ==
  /\ Free(c)
  /\ LET t == [NewCallback("callback", c, u) EXCEPT !.callback = "admin", !.arg = "notify_new"]
         user_ids == list_user_ids \cup {u}
         announced(undelivered) ==
           [t EXCEPT !.notices = broadcast_notices(user_ids, "new_lots"),
                     !.undelivered = undelivered]
     IN  \/ Return(c, t, "Err") /\ UNCHANGED <<dialogue, users, new_items>>
         \/ /\ users' = upsert_user(u)
            /\ IF u \notin Admins
               THEN Answer(c, t, "admins_only") /\ UNCHANGED <<dialogue, new_items>>
               ELSE /\ dialogue' = [dialogue EXCEPT ![c] = Idle]
                    /\ \/ Return(c, [t EXCEPT !.failed = "list"], "Err") /\ UNCHANGED new_items
                       \/ IF new_items = {}
                          THEN SendAndAnswer(c, t, "no_new_lots") /\ UNCHANGED new_items
                          ELSE \E undelivered \in SUBSET user_ids :
                                 \/ /\ Return(c, [announced(undelivered) EXCEPT
                                                    !.failed = "clear_new_item_flags"], "Err")
                                    /\ UNCHANGED new_items
                                 \/ /\ new_items' = {}
                                    /\ SendAndAnswer(c, announced(undelivered), "notified")
  /\ UNCHANGED <<items, bids, notifications_disabled>>
  /\ UNCHANGED <<categories, favorites, serial>>

\* fav:add:<itemId> and fav:remove:<itemId>.  A favorite of an item that does
\* not exist is not stored.
callback_fav(c, u, action, item_id) ==
  /\ Free(c)
  /\ LET t == [NewCallback("callback", c, u) EXCEPT !.callback = "fav", !.arg = action,
                                              !.item_id = item_id]
     IN  \/ Return(c, t, "Err") /\ UNCHANGED <<favorites, users>>
         \/ /\ users' = upsert_user(u)
            /\ IF action = "add"
               THEN IF get_item(item_id).present
                    THEN favorites' = favorites \cup {<<u, item_id>>} /\ SendAndAnswer(c, t, "added")
                    ELSE UNCHANGED favorites /\ Return(c, t, "Err")
               ELSE favorites' = favorites \ {<<u, item_id>>} /\ SendAndAnswer(c, t, "removed")
  /\ UNCHANGED <<items, bids, notifications_disabled, dialogue>>
  /\ UNCHANGED <<categories, new_items, serial>>

(***************************************************************************)
(* The system.                                                             *)
(***************************************************************************)
Init ==
  /\ categories = {CategoryRow(1, <<"x">>)}
  /\ items \in [ItemIds -> {ItemRow(a, 1, p) : a \in Admins, p \in StartPrices}]
  /\ bids = [i \in ItemIds |-> <<>>]
  /\ favorites = {}
  /\ users = Users
  /\ new_items = {}
  /\ serial = [items |-> NumItems, categories |-> 1]
  /\ notifications_disabled = [u \in Users |-> FALSE]
  /\ dialogue = [c \in Chats |-> Idle]
  /\ task = [c \in Chats |-> NoTask]
  /\ returned = NoTask
  /\ call = NoCall

Next ==
  \/ \E c \in Chats : \E u \in Members(c), text \in BidTexts : handle_bid_message(c, u, text)
  \/ \E c \in Chats : validate_bid_get_item(c)
  \/ \E c \in Chats : validate_bid_best_bid(c)
  \/ \E c \in Chats : handle_bid_place_bid(c)
  \/ \E c \in Chats : handle_bid_confirm(c)
  \/ \E c \in Chats : handle_bid_notify_outbid(c)
  \/ \E c \in Chats : handle_bid_notify_seller(c)
  \/ \E c \in Chats : \E u \in Members(c), i \in ItemIds : callback_bid(c, u, i)
  \/ \E c \in Chats : \E u \in Members(c), v \in {"close_item", "remove_item"} :
       callback_admin(c, u, v)
  \/ \E c \in Chats : \E u \in Members(c) : callback_toggle_notifications(c, u)
  \/ \E c \in Chats : \E u \in Members(c), text \in IdTexts :
       handle_close_item_message(c, u, text)
  \/ \E c \in Chats : close_get_item(c)
  \/ \E c \in Chats : close_close_item(c)
  \/ \E c \in Chats : close_notify(c)
  \/ \E c \in Chats : close_notify_recipients(c)
  \/ \E c \in Chats : \E u \in Members(c), text \in IdTexts :
       handle_remove_item_message(c, u, text)
  \/ \E c \in Chats : remove_delete_item(c)

Spec == Init /\ [][Next]_vars

(***************************************************************************)
(* The conversations of one group chat: its members share the dialogue of  *)
(* the chat, and the chat has one handler in flight at a time.  The        *)
(* catalog starts empty.                                                   *)
(***************************************************************************)
GroupChat == NumUsers + 1

DraftInit ==
  /\ categories = {}
  /\ items = [i \in ItemIds |-> NoItem]
  /\ bids = [i \in ItemIds |-> <<>>]
  /\ favorites = {}
  /\ users = Users
  /\ new_items = {}
  /\ serial = [items |-> 0, categories |-> 0]
  /\ notifications_disabled = [u \in Users |-> FALSE]
  /\ dialogue = [c \in {GroupChat} |-> Idle]
  /\ task = [c \in {GroupChat} |-> NoTask]
  /\ returned = NoTask
  /\ call = NoCall

DraftNext ==
  \/ \E u \in Users : handle_start(GroupChat, u)
  \/ \E u \in Users, v \in {"add_category", "add_item", "remove_item", "remove_category",
                             "close_item", "broadcast"} : callback_admin(GroupChat, u, v)
  \/ \E u \in Users : callback_admin_notify_new(GroupChat, u)
  \/ \E u \in Users, v \in PickcatValues : callback_pickcat(GroupChat, u, v)
  \/ \E u \in Users, msg \in AddItemMessages : handle_additem_message(GroupChat, u, msg)
  \/ \E u \in Users, text \in AdminTexts : handle_add_category_message(GroupChat, u, text)
  \/ ensure_category_create(GroupChat)
  \/ \E u \in Users, text \in AdminTexts : handle_remove_category_message(GroupChat, u, text)
  \/ \E u \in Users, text \in AdminTexts : handle_broadcast_message(GroupChat, u, text)
  \/ \E u \in Users, text \in AdminTexts : handle_close_item_message(GroupChat, u, text)
  \/ close_get_item(GroupChat)
  \/ close_close_item(GroupChat)
  \/ close_notify(GroupChat)
  \/ close_notify_recipients(GroupChat)
  \/ \E u \in Users, text \in AdminTexts : handle_remove_item_message(GroupChat, u, text)
  \/ remove_delete_item(GroupChat)

DraftSpec == DraftInit /\ [][DraftNext]_vars

(***************************************************************************)
(* Closing and announcing with favorites, mute preferences and users that  *)
(* register: each user in a private chat, one item on which the bids are   *)
(* in.                                                                     *)
(***************************************************************************)
Bid(bidder_tg_id, amount) == [bidder_tg_id |-> bidder_tg_id, amount |-> amount]

\* The bids of the item when the auction is closed: none, one, two of which
\* the later is higher, and two equal ones (two bidders that passed validation
\* against the same best bid)
BidHistories ==
  {<<>>, <<Bid(2, 100)>>, <<Bid(2, 100), Bid(1, 200)>>, <<Bid(2, 100), Bid(1, 100)>>}

NoticeInit ==
  /\ categories = {CategoryRow(1, <<"x">>)}
  /\ items = [i \in ItemIds |-> ItemRow(1, 1, 100)]
  /\ bids \in [ItemIds -> BidHistories]
  /\ favorites = {}
  /\ users = {}
  /\ new_items = ItemIds
  /\ serial = [items |-> NumItems, categories |-> 1]
  /\ notifications_disabled = [u \in Users |-> FALSE]
  /\ dialogue = [c \in Chats |-> Idle]
  /\ task = [c \in Chats |-> NoTask]
  /\ returned = NoTask
  /\ call = NoCall

NoticeNext ==
  \/ \E c \in Chats : \E u \in Members(c), a \in {"add", "remove"}, i \in ItemIds :
       callback_fav(c, u, a, i)
  \/ \E c \in Chats : \E u \in Members(c) : callback_toggle_notifications(c, u)
  \/ \E c \in Chats : \E u \in Members(c), v \in {"close_item", "broadcast"} :
       callback_admin(c, u, v)
  \/ \E c \in Chats : \E u \in Members(c) : callback_admin_notify_new(c, u)
  \/ \E c \in Chats : \E u \in Members(c), data \in OtherPayloads : callback_other(c, u, data)
  \/ \E c \in Chats : \E u \in Members(c), text \in AdminTexts :
       handle_broadcast_message(c, u, text)
  \/ \E c \in Chats : \E u \in Members(c), text \in IdTexts :
       handle_close_item_message(c, u, text)
  \/ \E c \in Chats : close_get_item(c)
  \/ \E c \in Chats : close_close_item(c)
  \/ \E c \in Chats : close_notify(c)
  \/ \E c \in Chats : close_notify_recipients(c)

NoticeSpec == NoticeInit /\ [][NoticeNext]_vars

(***************************************************************************)
(* Properties.                                                             *)
(***************************************************************************)
Amounts(i) == [k \in 1 .. Len(bids[i]) |-> bids[i][k].amount]

\* C1: for every item, the amounts of the committed bids, in commit order, are
\* strictly increasing, under every interleaving of bid submissions.
C1_CommittedBidsStrictlyIncrease ==
  \A i \in ItemIds : \A k \in 1 .. Len(bids[i]) - 1 : Amounts(i)[k] < Amounts(i)[k + 1]

\* C2: no bid is committed for an item once the item is closed, under every
\* interleaving of bid submissions and close-item actions.
C2_NoBidCommittedOnceClosed ==
  [][\A i \in ItemIds :
       (items[i].present /\ ~items[i].is_open) => Len(bids'[i]) <= Len(bids[i])]_vars

\* C3: the first bid committed for an item is at least the start price of the
\* item.
C3_FirstBidAtLeastStartPrice ==
  \A i \in ItemIds : bids[i] # <<>> => Amounts(i)[1] >= items[i].start_price

\* C3 witness: a first bid is committed at exactly a start price that a lower
\* well-formed amount would miss.
C3_FirstBidCommitted ==
  \E i \in ItemIds :
    /\ bids[i] # <<>>
    /\ Amounts(i)[1] = items[i].start_price
    /\ items[i].start_price > 100

\* The handlers in flight and the handler that just returned
Handlers == {task[c] : c \in Chats} \cup {returned}

\* The highest amount among the stored bids of an item
MaxAmount(i) == CHOOSE m \in {Amounts(i)[k] : k \in 1 .. Len(bids[i])} :
                  \A k \in 1 .. Len(bids[i]) : Amounts(i)[k] <= m

\* C4: for an existing open item and a well-formed amount, validation returns
\* TooLow(best) exactly when a best bid exists and amount <= best, BelowStart(start)
\* exactly when no bid exists and amount < start, and accepts otherwise.  The
\* verdict is compared with the item and the best bid the validation read; a
\* rejection returns in the step of the second read, so there the best bid is
\* compared with the stored bids.
C4_ValidateBidVerdict ==
  /\ \A t \in Handlers :
       t.result \in {"Ok", "TooLow", "BelowStart"} =>
         LET best == t.previous_best
             amount == t.amount_cents
             start == t.item.start_price
         IN  /\ t.result = "TooLow" <=> (best # None /\ amount <= best[2])
             /\ t.result = "BelowStart" <=> (best = None /\ amount < start)
             /\ t.result = "TooLow" => t.value = best[2]
             /\ t.result = "BelowStart" => t.value = start
  /\ returned.result = "TooLow" =>
       /\ bids[returned.item_id] # <<>>
       /\ returned.amount_cents <= MaxAmount(returned.item_id)
       /\ returned.value = MaxAmount(returned.item_id)
  /\ returned.result = "BelowStart" =>
       /\ bids[returned.item_id] = <<>>
       /\ returned.amount_cents < returned.item.start_price

\* C4 witness: a bid equal to the current best bid is rejected with TooLow.
C4_EqualBidRejected ==
  /\ returned.result = "TooLow"
  /\ returned.amount_cents = returned.value

\* A step of the bid handler of chat c
BidHandlerStep(c) ==
  \/ task[c].handler = "bid" /\ task'[c] # task[c]
  \/ task'[c].handler = "bid" /\ task'[c] # task[c]
  \/ returned'.handler = "bid" /\ returned'.chat = c /\ returned' # returned

\* C5: a bid submission that is rejected with TooLow or BelowStart leaves the
\* stored bids, and so the best bid and its bidder, unchanged: no step of a bid
\* handler changes the bids before validation has accepted the bid.
C5_RejectedBidStoresNothing ==
  [][\A c \in Chats :
       (BidHandlerStep(c) /\ task[c].result # "Ok") =>
         /\ bids' = bids
         /\ \A i \in ItemIds : best_bid_with_bidder(i)' = best_bid_with_bidder(i)]_vars

\* C5 witness: a bid was rejected with TooLow and the earlier bid is in the store.
C5_RejectedBidReturned ==
  /\ returned.result = "TooLow"
  /\ bids[returned.item_id] # <<>>
  /\ ~returned.stored

\* C6: after the input to a PlaceBid draft is handled, the conversation is Idle
\* if the bid was accepted or the result was NotFound or Closed, and still holds
\* the same PlaceBid draft if the result was TooLow, BelowStart or an invalid
\* amount format.
C6_ConversationAfterBidInput ==
  returned.handler = "bid" =>
    /\ (returned.stored \/ returned.result \in {"NotFound", "Closed"}) =>
         dialogue[returned.chat] = Idle
    /\ returned.result \in {"TooLow", "BelowStart", "InvalidAmount"} =>
         dialogue[returned.chat] = returned.draft

\* C7: when a storage call fails while a bid is handled (loading the item,
\* loading the best bid, or inserting the bid), the bidder is sent the generic
\* retry-later message, the PlaceBid draft is left in place, and no bid is
\* stored.
C7_StorageFailureRetryLater ==
  (returned.handler = "bid" /\
   returned.failed \in {"get_item", "best_bid_with_bidder", "place_bid"}) =>
    /\ returned.reply = "retry_later"
    /\ dialogue[returned.chat] = returned.draft
    /\ ~returned.stored

\* The handler of chat c takes a step after it has stored its bid
CommittedBidStep(c) ==
  /\ task[c].handler = "bid"
  /\ task[c].stored
  /\ task'[c] # task[c]

\* The handler of chat c returns in this step
Returns(c) == task'[c] # task[c] /\ task'[c] = NoTask /\ returned'.chat = c

\* The handler of chat c after the step: in flight, or as it returned
After(c) == IF task'[c] = NoTask THEN returned' ELSE task'[c]

\* An outbid notice is due for the bid the handler t has stored: the bid is the
\* best bid of the item, a previous best bid existed, its bidder is another
\* user, and that user has not muted notifications.
OutbidDue(t, is_best) ==
  /\ is_best
  /\ t.previous_best # None
  /\ t.previous_best[1] # t.sender
  /\ ~notifications_disabled[t.previous_best[1]]

\* C8: after a bid is committed, an outbid notice is sent to the bidder of the
\* previous best bid exactly when the committed bid is now the best bid of the
\* item, a previous best bid existed, its bidder differs from the new bidder, and
\* that bidder has not muted notifications; in every other case none is sent.
\* (The step that reads the mute preference decides; a failed read of the
\* preference is left out.)
C8_OutbidNoticeExactlyWhenDue ==
  [][\A c \in Chats :
       CommittedBidStep(c) =>
         LET t == task[c] IN
         /\ (t.pc = "notify_outbid" /\ After(c).outbid # "error") =>
              (After(c).outbid \in {"sent", "failed"} <=> OutbidDue(t, t.is_highest))
         /\ (t.pc = "confirm" /\ Returns(c)) =>
              ~OutbidDue(t, best_bid_with_bidder(t.item_id) = <<t.sender, t.amount_cents>>)]_vars

\* C9: every committed bid is followed by an attempt to deliver a new-bid notice
\* to the seller of the item whenever the seller has not muted notifications,
\* whatever the outcome of the other reads and deliveries of the same bid
\* action; a muted seller is never sent one.  (A failed read of the seller's
\* preference is left out.)
C9_SellerNoticeAlwaysAttempted ==
  [][\A c \in Chats :
       (CommittedBidStep(c) /\ Returns(c) /\ returned'.seller # "error") =>
         (returned'.seller \in {"sent", "failed"}
            <=> ~notifications_disabled[task[c].item.seller_tg_id])]_vars

\* A notice that was not delivered: the delivery failed, or the preference of
\* the recipient could not be read
Undelivered == {"failed", "error"}

\* C10: a failed outbid or seller delivery after a bid was committed leaves the
\* committed bid in the store, is not reported to the bidder as an error, and
\* does not make the bid action fail: the handler goes on from a failed outbid
\* notice to the seller notice, returns Ok after a failed seller notice, and the
\* conversation of the bidder ends in Idle.
C10_NoticeFailureIsNotAnError ==
  [][\A c \in Chats :
       CommittedBidStep(c) =>
         LET t == task[c] IN
         /\ (t.pc = "notify_outbid" /\ After(c).outbid \in Undelivered) =>
              /\ bids' = bids
              /\ After(c).pc = "notify_seller"
              /\ After(c).reply = t.reply
              /\ dialogue'[c] = Idle
         /\ (t.pc = "notify_seller" /\
             (t.outbid \in Undelivered \/ returned'.seller \in Undelivered)) =>
              /\ bids' = bids
              /\ Returns(c)
              /\ returned'.ret = "Ok"
              /\ returned'.reply \in {"bid_placed", "bid_placed_highest"}
              /\ dialogue'[c] = Idle]_vars

\* C10 witness: a bid handler whose outbid delivery failed has returned Ok, the
\* bid is in the store and the conversation is Idle.
C10_FailedOutbidDeliveryReturnedOk ==
  /\ returned.handler = "bid"
  /\ returned.outbid = "failed"
  /\ returned.ret = "Ok"
  /\ returned.stored
  /\ \E k \in 1 .. Len(bids[returned.item_id]) :
       bids[returned.item_id][k] =
         [bidder_tg_id |-> returned.sender, amount |-> returned.amount_cents]
  /\ dialogue[returned.chat] = Idle

(***************************************************************************)
(* Admin drafts and announcements.                                         *)
(***************************************************************************)
\* C11: the owner of every AddItem draft a conversation holds belongs to the
\* admin identity list.
C11_AddItemOwnerIsAdmin ==
  \A c \in DOMAIN dialogue :
    dialogue[c].kind = "AddItem" => dialogue[c].user \in Admins

\* The catalog: categories, items with their bids, favorites and new-lot flags
catalog == <<categories, items, bids, favorites, new_items, serial>>

\* C12: an admin action (add_category, add_item, remove_item, remove_category,
\* close_item, broadcast, notify_new) taken by a user outside the admin list
\* changes neither the conversation nor the catalog and announces nothing;
\* the user gets the admins-only notice, or nothing when the handler failed
\* before the check.
C12_NonAdminActionChangesNothing ==
  [][(/\ returned'.handler = "callback"
      /\ returned'.callback = "admin"
      /\ returned'.sender \notin Admins)
     => /\ dialogue' = dialogue
        /\ catalog' = catalog
        /\ returned'.notices = {}
        /\ \/ returned'.reply = "admins_only"
           \/ returned'.reply = "none" /\ returned'.ret = "Err"]_vars

\* C12 witness: a non-admin asked for the new-lots announcement while lots
\* were flagged and the chat held a draft, and got the admins-only notice.
C12_NonAdminNotifyNewRefused ==
  /\ returned.handler = "callback"
  /\ returned.callback = "admin"
  /\ returned.arg = "notify_new"
  /\ returned.sender \notin Admins
  /\ returned.reply = "admins_only"
  /\ new_items # {}
  /\ dialogue[returned.chat].kind = "Broadcast"

\* The handlers of the message branch of build_schema
MessageHandlers ==
  {"start", "additem", "bid", "add_category", "close", "remove", "remove_category",
   "broadcast"}

\* C13: a message that arrives while the chat holds a draft, from a sender who
\* is not the identity stored in the draft, leaves the conversation and the
\* catalog as they were and announces nothing.
C13_NonOwnerMessageChangesNothing ==
  [][\A c \in DOMAIN dialogue :
       (/\ Free(c)
        /\ dialogue[c].kind # "Idle"
        /\ returned'.handler \in MessageHandlers
        /\ returned'.chat = c
        /\ returned'.sender # dialogue[c].user)
       => /\ dialogue' = dialogue
          /\ catalog' = catalog
          /\ returned'.notices = {}]_vars

\* C14: at every stage of an AddItem draft the cancel keyword, in any letter
\* case and with blanks around it, sent by the owner, sets the conversation to
\* Idle and creates neither an item nor a category.
C14_CancelAddItem ==
  [][\A c \in DOMAIN dialogue :
       (/\ returned'.handler = "additem"
        /\ returned'.chat = c
        /\ returned'.cancel
        /\ returned'.sender = returned'.draft.user)
       => /\ dialogue'[c] = Idle
          /\ returned'.reply = "cancelled"
          /\ catalog' = catalog]_vars

\* C14 witness: the owner cancelled at the last stage, StartPrice, with the
\* category, the title and the description already given; the conversation is
\* Idle and no item exists.
C14_CancelledAtStartPrice ==
  /\ returned.handler = "additem"
  /\ returned.cancel
  /\ returned.sender = returned.draft.user
  /\ returned.draft.stage = "StartPrice"
  /\ returned.draft.title # None
  /\ dialogue[returned.chat] = Idle
  /\ \A i \in ItemIds : ~items[i].present

\* The handlers of the single-step admin drafts
AdminDraftHandlers == {"add_category", "close", "remove", "remove_category", "broadcast"}

\* C15: in a single-step admin draft (AddCategory, CloseItem, RemoveItem,
\* RemoveCategory, Broadcast) the cancel keyword from the admin who started it
\* sets the conversation to Idle and the draft's action is not performed:
\* the catalog is unchanged and nothing is announced.
C15_CancelAdminDraft ==
  [][\A c \in DOMAIN dialogue :
       (/\ returned'.handler \in AdminDraftHandlers
        /\ returned'.chat = c
        /\ returned'.cancel
        /\ returned'.sender = returned'.draft.user)
       => /\ dialogue'[c] = Idle
          /\ catalog' = catalog
          /\ returned'.notices = {}]_vars

\* C16: whenever a conversation goes from any other state to AddItem, the
\* stored draft is the fresh one: stage Category, the user who started it as
\* owner, and no category, title, description or start price.
C16_AddItemStartsAtCategory ==
  [][\A c \in DOMAIN dialogue :
       (dialogue[c].kind # "AddItem" /\ dialogue'[c].kind = "AddItem")
       => /\ returned'.chat = c
          /\ dialogue'[c].user = returned'.sender
          /\ dialogue'[c].stage = "Category"
          /\ dialogue'[c].category_id = None
          /\ dialogue'[c].title = None
          /\ dialogue'[c].description = None
          /\ dialogue'[c].start_price = None]_vars

\* C17: a close handler that finds its item already closed reports that,
\* leaves the item and the bids as they are and sends no closure notice; and
\* closure notices are only sent by a handler that read the item open and
\* closed it itself, so of the close actions taken one after another on an
\* item only the first sends notices.
C17_CloseOfClosedItem ==
  [][\A c \in DOMAIN task :
       /\ (/\ task[c].pc = "close_get_item"
           /\ task'[c] # task[c]
           /\ items[task[c].item_id].present
           /\ ~items[task[c].item_id].is_open)
          => /\ task'[c] = NoTask
             /\ returned'.chat = c
             /\ \/ returned'.reply = "already_closed"
                \/ returned'.reply = "none" /\ returned'.ret = "Err"
             /\ returned'.notices = {}
             /\ items' = items
             /\ bids' = bids
       /\ (/\ task'[c].handler = "close"
           /\ task'[c].pc \in {"notify_closed", "notify_recipients"}
           /\ task'[c] # task[c])
          => /\ task'[c].item.is_open
             /\ task[c].pc \in {"close_item", "notify_closed"}
       /\ (returned'.handler = "close" /\ returned'.chat = c /\ returned'.notices # {})
          => task[c].pc = "notify_recipients"]_vars

\* C17 witness: a close of an item that has bids and is closed already
\* returned with the already-closed report and without notices.
C17_AlreadyClosedReported ==
  /\ returned.handler = "close"
  /\ returned.reply = "already_closed"
  /\ returned.notices = {}
  /\ items[returned.item_id].present
  /\ ~items[returned.item_id].is_open
  /\ Len(bids[returned.item_id]) > 0

\* C18: when an open item is closed, every closure notice matches the role
\* of its recipient in the store at the time of the sends: the bidder of the
\* best bid (highest amount, earliest on ties) is told it won with that
\* amount, every other recipient is told the same final amount, and with no
\* bids every recipient is told the item closed with no bids.
C18_ClosureNoticeMatchesRole ==
  [][\A c \in DOMAIN task :
       (/\ task[c].pc = "notify_recipients"
        /\ returned'.handler = "close"
        /\ returned'.chat = c)
       => \A n \in returned'.notices :
            n = closed_notice(n.to, best_bid_with_bidder(task[c].item_id))]_vars

\* The users that bid on item i or hold it as a favorite, and are not muted
ClosureAudience(i) ==
  {u \in Users :
     /\ \/ \E k \in 1 .. Len(bids[i]) : bids[i][k].bidder_tg_id = u
        \/ <<u, i>> \in favorites
     /\ ~notifications_disabled[u]}

Announced(t) == {n.to : n \in t.notices}

\* C20: the admin broadcast and the new-lots announcement are attempted to
\* every registered user, muted or not: a broadcast that was sent, and a
\* new-lots announcement asked for by an admin while lots are flagged, go to
\* all the users of the registry unless a storage call failed before the sends.
C20_AnnouncementsReachEveryUser ==
  [][/\ (returned'.handler = "broadcast"
           /\ returned'.reply \in {"broadcast_sent", "no_users"})
        => /\ Announced(returned') = users
           /\ \A n \in returned'.notices : n.kind = "broadcast"
     /\ (/\ returned'.handler = "callback"
         /\ returned'.callback = "admin"
         /\ returned'.arg = "notify_new"
         /\ returned'.sender \in Admins
         /\ new_items # {})
        => \/ /\ Announced(returned') = users'
              /\ \A n \in returned'.notices : n.kind = "new_lots"
           \/ /\ returned'.ret = "Err"
              /\ returned'.reply = "none"
              /\ returned'.failed \in {"none", "list"}
              /\ returned'.notices = {}]_vars

\* C20 witness: a broadcast was attempted to both registered users, one of
\* whom had muted notifications.
C20_BroadcastToMutedUser ==
  /\ returned.handler = "broadcast"
  /\ returned.reply = "broadcast_sent"
  /\ users = {1, 2}
  /\ notifications_disabled[2]
  /\ Announced(returned) = {1, 2}

(***************************************************************************)
(* broadcast_text on its own: the loop over the recipients.                *)
(***************************************************************************)
MaxRecipients == 10

\* The lists of recipients: the ids 1 .. n in rising and in falling order
RecipientLists ==
  UNION {{[k \in 1 .. n |-> k], [k \in 1 .. n |-> n + 1 - k]} : n \in 0 .. MaxRecipients}

\* The activation of broadcast_text: the list, the position of the iterator,
\* the counter, and what it did so far: the sends in the order they were
\* awaited, and the warnings logged
broadcast_text(user_ids) ==
  [fn |-> "broadcast_text", pc |-> "loop", user_ids |-> user_ids, next |-> 1,
   delivered |-> 0, sent |-> <<>>, warned |-> <<>>, ret |-> 0]

\* All variables but call: they play no part when a function is studied alone
NoStore ==
  /\ categories = {}
  /\ items = [i \in ItemIds |-> NoItem]
  /\ bids = [i \in ItemIds |-> <<>>]
  /\ favorites = {}
  /\ users = {}
  /\ new_items = {}
  /\ serial = [items |-> 0, categories |-> 0]
  /\ notifications_disabled = [u \in Users |-> FALSE]
  /\ dialogue = [c \in {} |-> Idle]
  /\ task = [c \in {} |-> NoTask]
  /\ returned = NoTask

store == <<items, bids, notifications_disabled, dialogue, task, returned, registry>>

\* One iteration where a failed send ends the loop
broadcast_text_send_abort ==
  /\ call.fn = "broadcast_text"
  /\ call.pc = "loop"
  /\ call.next <= Len(call.user_ids)
  /\ LET user_id == call.user_ids[call.next] IN
     \/ call' = [call EXCEPT !.sent = Append(@, user_id), !.delivered = @ + 1,
                             !.next = @ + 1]
     \/ call' = [call EXCEPT !.sent = Append(@, user_id), !.warned = Append(@, user_id),
                             !.next = Len(call.user_ids) + 1]
  /\ UNCHANGED store

\* One iteration: request.await, Ok counts, Err is logged
broadcast_text_send ==
  /\ call.fn = "broadcast_text"
  /\ call.pc = "loop"
  /\ call.next <= Len(call.user_ids)
  /\ LET user_id == call.user_ids[call.next] IN
     \/ call' = [call EXCEPT !.sent = Append(@, user_id), !.delivered = @ + 1,
                             !.next = @ + 1]
     \/ call' = [call EXCEPT !.sent = Append(@, user_id), !.warned = Append(@, user_id),
                             !.next = @ + 1]
  /\ UNCHANGED store

\* The end of the loop: `delivered` is the value of the function
broadcast_text_return ==
  /\ call.fn = "broadcast_text"
  /\ call.pc = "loop"
  /\ call.next > Len(call.user_ids)
  /\ call' = [call EXCEPT !.pc = "returned", !.ret = call.delivered]
  /\ UNCHANGED store

BroadcastInit ==
  /\ NoStore
  /\ \E user_ids \in RecipientLists : call = broadcast_text(user_ids)

BroadcastNext == broadcast_text_send \/ broadcast_text_return

BroadcastSpec == BroadcastInit /\ [][BroadcastNext]_vars

\* C21: broadcast_text awaits one send per recipient of its list, in the
\* order of the list and whatever the earlier sends gave, logs one warning
\* per failed send, and returns the number of sends that succeeded; it has no
\* other way to end.
C21_BroadcastCountsDeliveries ==
  call.fn = "broadcast_text" =>
    /\ call.sent = SubSeq(call.user_ids, 1, call.next - 1)
    /\ call.delivered = Len(call.sent) - Len(call.warned)
    /\ call.pc = "returned" =>
         /\ call.sent = call.user_ids
         /\ call.ret = Len(call.user_ids) - Len(call.warned)

\* C21 witness: ten recipients, the sends to the third and the tenth failed,
\* all ten were attempted and 8 is returned.
C21_TenRecipientsTwoFailures ==
  /\ call.fn = "broadcast_text"
  /\ call.pc = "returned"
  /\ Len(call.user_ids) = 10
  /\ call.warned = <<3, 10>>
  /\ Len(call.sent) = 10
  /\ call.ret = 8

(***************************************************************************)
(* Conversation state under concurrent inputs.                             *)
(***************************************************************************)
\* C22: inputs of one chat never lose an update of its conversation state.
\* A handler in flight in a chat is only ever continued by itself, every
\* write of the chat's conversation state is made by the handler of that
\* chat, and a handler that was given the state on entry and writes after its
\* awaits overwrites the very state it was given: no other write came in
\* between, so the inputs of a chat take effect one after the other.
C22_NoLostUpdate ==
  [][\A c \in DOMAIN dialogue :
       /\ (task[c].pc # "idle" /\ task'[c] # task[c])
          => /\ After(c).chat = c
             /\ After(c).handler = task[c].handler
             /\ After(c).sender = task[c].sender
             /\ After(c).draft = task[c].draft
       /\ dialogue'[c] # dialogue[c]
          => /\ After(c).chat = c
             /\ After(c).handler \in MessageHandlers \ {"start"}
                => dialogue[c] = After(c).draft]_vars

\* C22 witness: in a chat with two members a close handler, given the
\* CloseItem draft on entry, closed the item after two awaits and wrote Idle.
C22_WriteAfterAwaits ==
  /\ returned.handler = "close"
  /\ returned.chat = GroupChat
  /\ returned.draft.kind = "CloseItem"
  /\ returned.item.is_open
  /\ dialogue[GroupChat] = Idle
  /\ ~items[returned.item_id].is_open

(***************************************************************************)
(* parse_money_to_cents on its own.                                        *)
(***************************************************************************)
MoneyLen == 3

\* The characters of the short inputs: digits, the dot, a letter, a blank
\* and the two digits outside ASCII
MoneyChars == {"0", "1", ".", "x", " ", "U+0663", "U+0967"}

\* The inputs of the unit tests of util.rs and of the specification
MoneyExamples ==
  {<<"1", "0">>, <<"1", "0", ".", "5">>, <<"1", "0", ".", "5", "5">>,
   <<"a", "b", "c">>, <<"1", "0", ".", "5", "5", "5">>, <<>>}

\* The largest whole part whose cents fit in an i64: 92233720368547758
MaxWhole == SubSeq(I64MaxDigits, 1, 17)

\* Inputs around i64::MAX cents: the largest amount, one cent more, the next
\* whole part, a whole part that is i64::MAX itself, and one that is
\* i64::MAX + 1
MoneyLimits ==
  {MaxWhole \o <<".", "0", "7">>, MaxWhole \o <<".", "0", "8">>,
   SubSeq(I64MaxDigits, 1, 16) \o <<"9">>,
   I64MaxDigits,
   SubSeq(I64MaxDigits, 1, 18) \o <<"8">>}

MoneyInputs ==
  UNION {[1 .. n -> MoneyChars] : n \in 0 .. MoneyLen} \cup MoneyExamples \cup MoneyLimits

MoneyInit ==
  /\ NoStore
  /\ \E input \in MoneyInputs :
       call = [fn |-> "parse_money_to_cents", pc |-> "called", input |-> input,
               result |-> [ok |-> FALSE, digits |-> <<>>, err |-> "none"]]

\* parse_money_to_cents(input) returns, or panics
parse_money_return ==
  /\ call.fn = "parse_money_to_cents"
  /\ call.pc = "called"
  /\ call' = [call EXCEPT !.pc = "returned", !.result = parse_money_numeral(call.input)]
  /\ UNCHANGED store

MoneyNext == parse_money_return

MoneySpec == MoneyInit /\ [][MoneyNext]_vars

\* The number of digits of the whole part of a text in the money format: one
\* or more digits 0-9, optionally followed by a dot and one or two digits; 0
\* when the text is not in the format
WholeLen(t) ==
  LET ws == {w \in 1 .. Len(t) :
               /\ AllDigits(SubSeq(t, 1, w))
               /\ \/ w = Len(t)
                  \/ /\ t[w + 1] = "."
                     /\ Len(t) - (w + 1) \in {1, 2}
                     /\ AllDigits(SubSeq(t, w + 2, Len(t)))}
  IN  IF ws = {} THEN 0 ELSE CHOOSE w \in ws : TRUE

MoneyFormat(t) == WholeLen(t) > 0

WholePart(t) == SubSeq(t, 1, WholeLen(t))

FractionPart(t) == SubSeq(t, WholeLen(t) + 2, Len(t))

\* The cents of a text in the money format, as a numeral of whole part and
\* two fractional digits
CentsNumeral(t) ==
  WholePart(t) \o (CASE Len(FractionPart(t)) = 0 -> <<"0", "0">>
                     [] Len(FractionPart(t)) = 1 -> FractionPart(t) \o <<"0">>
                     [] OTHER -> FractionPart(t))

\* whole * 100 + fraction, a single fractional digit counting as tens
CentsValue(t) ==
  DigitsToInt(WholePart(t)) * 100
    + (CASE Len(FractionPart(t)) = 0 -> 0
         [] Len(FractionPart(t)) = 1 -> DigitVal(FractionPart(t)[1]) * 10
         [] OTHER -> DigitsToInt(FractionPart(t)))

\* C23: parse_money_to_cents accepts exactly the inputs that, trimmed, are in
\* the money format, with the value whole * 100 + fraction (amounts too large
\* for an i64 aside), and gives InvalidFormat for every other input.
C23_ParseMoneyFormat ==
  (call.fn = "parse_money_to_cents" /\ call.pc = "returned") =>
    LET t == Trim(call.input)
        r == call.result
    IN  IF MoneyFormat(t)
        THEN Len(t) <= 9 => (r.ok /\ DigitsToInt(r.digits) = CentsValue(t))
        ELSE ~r.ok /\ r.err = "InvalidFormat"

\* C24: for every input in the money format parse_money_to_cents returns the
\* exact cents when they fit in an i64 and OutOfRange when they do not.
C24_ParseMoneyRange ==
  (call.fn = "parse_money_to_cents" /\ call.pc = "returned") =>
    LET t == Trim(call.input)
        r == call.result
    IN  MoneyFormat(t) =>
          IF FitsI64(CentsNumeral(t))
          THEN r.ok /\ r.digits = StripZeros(CentsNumeral(t))
          ELSE ~r.ok /\ r.err = "OutOfRange"

(***************************************************************************)
(* Categories by name: the admin writes category names in two chats, the   *)
(* private chat and a group chat, as the input of AddCategory drafts and   *)
(* at stage Category of AddItem drafts.  The names differ in letter case   *)
(* only, and the handlers of the two chats run side by side.               *)
(***************************************************************************)
CategoryTexts == {<<"x">>, <<"X">>}
CategoryChats == {1, GroupChat}

CategoryInit ==
  /\ categories = {}
  /\ items = [i \in ItemIds |-> NoItem]
  /\ bids = [i \in ItemIds |-> <<>>]
  /\ favorites = {}
  /\ users = Users
  /\ new_items = {}
  /\ serial = [items |-> 0, categories |-> 0]
  /\ notifications_disabled = [u \in Users |-> FALSE]
  /\ dialogue = [c \in CategoryChats |-> Idle]
  /\ task = [c \in CategoryChats |-> NoTask]
  /\ returned = NoTask
  /\ call = NoCall

CategoryNext ==
  \/ \E c \in CategoryChats, u \in Admins, v \in {"add_category", "add_item"} :
       callback_admin(c, u, v)
  \/ \E c \in CategoryChats, u \in Admins, text \in CategoryTexts :
       handle_add_category_message(c, u, text)
  \/ \E c \in CategoryChats, u \in Admins, text \in CategoryTexts :
       handle_additem_message(c, u, [text |-> text, photo |-> 0])
  \/ \E c \in CategoryChats : ensure_category_create(c)

CategorySpec == CategoryInit /\ [][CategoryNext]_vars

\* The rows whose name is `name` but for letter case
SameName(name) == {row \in categories : Lower(row.name) = Lower(name)}

\* C25: ensure_category is get-or-create by name up to letter case.  When
\* the lookup of a handler finds a row of that name but for case, nothing is
\* created and the handler goes on with that row's id, flagged existing (or
\* the lookup fails and the handler returns the error, nothing created).
\* When the lookup finds none, the handler goes on to the insert, and the
\* insert adds exactly one row, of the name as written and a fresh id, and
\* the handler goes on with it flagged new (or the insert fails, nothing
\* created).
C25_EnsureCategoryGetOrCreate ==
  [][\A c \in DOMAIN dialogue :
       /\ (task[c].pc = "idle" /\ task'[c] # task[c]
           /\ task'[c].pc = "ensure_category")
          => /\ SameName(task'[c].name) = {}
             /\ categories' = categories
       /\ (task[c].pc = "idle" /\ returned' # returned /\ returned'.chat = c
           /\ returned'.category # 0)
          => /\ returned'.existing
             /\ categories' = categories
             /\ \E row \in SameName(returned'.name) : row.id = returned'.category
             /\ returned'.ret = "Ok" =>
                  IF returned'.handler = "additem"
                  THEN /\ dialogue'[c].category_id = Some(returned'.category)
                       /\ dialogue[c].stage = "Category"
                  ELSE dialogue'[c] = Idle
       /\ (task[c].pc = "ensure_category" /\ task'[c] # task[c])
          => \/ /\ returned'.failed = "ensure_category"
                /\ returned'.ret = "Err"
                /\ categories' = categories
             \/ /\ returned'.failed = "none"
                /\ ~returned'.existing
                /\ returned'.category \notin {row.id : row \in categories}
                /\ categories' =
                     categories \cup {CategoryRow(returned'.category, task[c].name)}
                /\ Cardinality(categories') = Cardinality(categories) + 1]_vars

\* C25 witness: with the category "x" stored, the name "X" was ensured: the
\* handler went on with the id of "x", flagged existing, and the table holds
\* the one row.
C25_OtherCaseIsExisting ==
  /\ returned.handler = "add_category"
  /\ returned.existing
  /\ returned.reply = "category_exists"
  /\ returned.name = <<"X">>
  /\ categories = {CategoryRow(returned.category, <<"x">>)}
  /\ serial.categories = 1

\* C26: no two categories have names that are equal but for letter case, in
\* every reachable state, the handlers of different chats running
\* ensure_category side by side included.
C26_CategoryNamesUnique ==
  \A r1 \in categories, r2 \in categories :
    Lower(r1.name) = Lower(r2.name) => r1 = r2

(***************************************************************************)
(* Acknowledgment of inline actions.                                       *)
(***************************************************************************)
\* C27: every inline action is answered with exactly one acknowledgment:
\* whenever handle_callback_query returns, whatever the payload and whatever
\* the outcome of its storage and transport calls, it has sent one
\* acknowledgment of the action.
C27_InlineActionAcknowledged ==
  [][(returned' # returned /\ returned'.handler = "callback")
       => returned'.answered = 1]_vars

(***************************************************************************)
(* Order of the checks of a bid.                                           *)
(***************************************************************************)
\* C28: bid validation checks in a fixed order and reports the first
\* failure.  A malformed amount from the bidder of the draft is answered
\* with InvalidAmount in the step that takes the message, whatever the item
\* is by then (missing, closed or open).  The item is looked at next:
\* a missing item gives NotFound and a closed one Closed, whatever the amount
\* is next to the bids and the start price (or the read fails).  TooLow and
\* BelowStart are only reported after the read of the best bid, for an item
\* that was read present and open.
C28_BidChecksInOrder ==
  [][\A c \in DOMAIN dialogue :
       /\ ( /\ task[c].pc = "idle"
            /\ dialogue[c].kind = "PlaceBid"
            /\ task'[c] # task[c] \/ returned' # returned
            /\ After(c).handler = "bid"
            /\ After(c).chat = c
            /\ After(c).result # "InvalidAmount" )
          => \A text \in BidTexts :
               (Trim(text) # <<>> /\ ~parse_money_to_cents(Trim(text)).ok)
               => ~handle_bid_message(c, dialogue[c].user, text)
       /\ (task[c].pc = "get_item" /\ task'[c] # task[c])
          => LET item == get_item(task[c].item_id) IN
             \/ returned'.result = DbError /\ returned'.failed = "get_item"
             \/ ~item.present /\ returned'.result = "NotFound"
             \/ item.present /\ ~item.is_open /\ returned'.result = "Closed"
             \/ item.present /\ item.is_open /\ task'[c].pc = "best_bid"
       /\ (returned' # returned /\ returned'.chat = c
           /\ returned'.result \in {"TooLow", "BelowStart"})
          => /\ task[c].pc = "best_bid"
             /\ task[c].item.present
             /\ task[c].item.is_open
       /\ (returned' # returned /\ returned'.chat = c
           /\ returned'.result = "InvalidAmount")
          => task[c].pc = "idle"]_vars

\* C28 witness: a malformed amount for an item that has been removed is
\* answered with InvalidAmount.
C28_MalformedBidOnMissingItem ==
  /\ returned.handler = "bid"
  /\ returned.result = "InvalidAmount"
  /\ ~get_item(returned.item_id).present

(***************************************************************************)
(* The stages of an AddItem draft.                                         *)
(***************************************************************************)
\* The place of a stage in the order Category, Title, Description, StartPrice
StageIndex(stage) ==
  CASE stage = "Category" -> 1
    [] stage = "Title" -> 2
    [] stage = "Description" -> 3
    [] stage = "StartPrice" -> 4

\* The AddItem draft of chat c lives through this step: the chat holds an
\* AddItem draft before and after it, and the step is not admin:add_item,
\* which discards the draft and starts another.
DraftLives(c) ==
  /\ dialogue[c].kind = "AddItem"
  /\ dialogue'[c].kind = "AddItem"
  /\ ~(returned' # returned /\ returned'.chat = c /\ returned'.callback = "admin")

\* C29: over the lifetime of an AddItem draft every handled input, message
\* or inline action, leaves the stage where it is or moves it to the next
\* stage in the order Category, Title, Description, StartPrice; a message
\* without text (blank, or a photo alone) leaves the stage where it is.
C29_StageMovesToSuccessor ==
  [][\A c \in DOMAIN dialogue :
       DraftLives(c) =>
         /\ \/ dialogue'[c].stage = dialogue[c].stage
            \/ StageIndex(dialogue'[c].stage) = StageIndex(dialogue[c].stage) + 1
         /\ (returned' # returned /\ returned'.chat = c
             /\ returned'.reply \in {"added_photo", "none"})
            => dialogue'[c].stage = dialogue[c].stage]_vars

(***************************************************************************)
(* The category picker and the owner of the draft.                         *)
(***************************************************************************)
\* C30: a pickcat:new or pickcat:<categoryId> inline action from anyone but
\* the owner of the chat's AddItem draft leaves the draft as it is: stage,
\* category, title, description, images and owner.
C30_PickcatByNonOwner ==
  [][\A c \in DOMAIN dialogue :
       ( /\ dialogue[c].kind = "AddItem"
         /\ returned' # returned
         /\ returned'.chat = c
         /\ returned'.callback = "pickcat"
         /\ returned'.sender # dialogue[c].user )
       => dialogue'[c] = dialogue[c]]_vars

(***************************************************************************)
(* One AddItem draft from its first input to the commit: the admin answers *)
(* the stages in a group chat with names, a price, the skip sign, blank    *)
(* texts and photos, and the members of the chat press the category        *)
(* picker.  The catalog starts empty.                                      *)
(***************************************************************************)
ItemTexts == {<<"1">>, <<"-">>, <<" ">>}
ItemPhotos == {0, 1, 2}
ItemMessages == {[text |-> t, photo |-> ph] : t \in ItemTexts, ph \in ItemPhotos}

ItemNext ==
  \/ \E u \in Admins : callback_admin(GroupChat, u, "add_item")
  \/ \E u \in Users, v \in PickcatValues : callback_pickcat(GroupChat, u, v)
  \/ \E u \in Admins, msg \in ItemMessages : handle_additem_message(GroupChat, u, msg)
  \/ ensure_category_create(GroupChat)

ItemSpec == DraftInit /\ [][ItemNext]_vars

(***************************************************************************)
(* The price of an AddItem draft.                                          *)
(***************************************************************************)
\* The step takes a message of the owner of the AddItem draft of chat c at
\* stage StartPrice, with a text that is not blank and not the cancel keyword
OwnerPriceInput(c) ==
  /\ task[c].pc = "idle"
  /\ dialogue[c].kind = "AddItem"
  /\ dialogue[c].stage = "StartPrice"
  /\ returned' # returned
  /\ returned'.chat = c
  /\ returned'.handler = "additem"
  /\ returned'.sender = dialogue[c].user
  /\ ~returned'.cancel
  /\ returned'.reply \notin {"added_photo", "none"} \/ returned'.failed # "none"

\* C31: at stage StartPrice a text of the owner that does not parse as money
\* leaves the stored draft exactly as it was (stage StartPrice, the same
\* fields and images), creates no item and keeps the conversation in AddItem.
C31_InvalidPriceKeepsDraft ==
  [][\A c \in DOMAIN dialogue :
       (OwnerPriceInput(c) /\ returned'.reply = "invalid_price")
       => /\ dialogue'[c] = dialogue[c]
          /\ items' = items
          /\ new_items' = new_items
          /\ serial' = serial]_vars

\* C31 witness: the owner sent a text that is no price to a draft at stage
\* StartPrice that holds a photo; the draft is as it was and there is no item.
C31_InvalidPriceWithPhoto ==
  /\ returned.reply = "invalid_price"
  /\ returned.sender = returned.draft.user
  /\ dialogue[returned.chat] = returned.draft
  /\ returned.draft.stage = "StartPrice"
  /\ returned.draft.image_file_ids = <<2>>
  /\ items = [i \in ItemIds |-> NoItem]

\* C32: at stage StartPrice a text of the owner that parses as money, when
\* the commit goes through, creates exactly one item: its seller is the owner
\* of the draft, its category, title and description are those of the draft,
\* its start price is the parsed amount in cents, not negative, its images
\* are the images of the draft in the same order (with the photo of the
\* message itself, if it brings a new one, at the end), it is open and
\* flagged new; the conversation is then Idle.
C32_ValidPriceCreatesItem ==
  [][\A c \in DOMAIN dialogue :
       (OwnerPriceInput(c) /\ returned'.reply = "item_created")
       => LET draft == dialogue[c]
              id == returned'.item_id
          IN  /\ id \in ItemIds
              /\ ~items[id].present
              /\ \A i \in ItemIds \ {id} : items'[i] = items[i]
              /\ items'[id].present
              /\ items'[id].is_open
              /\ id \in new_items'
              /\ items'[id].seller_tg_id = draft.user
              /\ Some(items'[id].category_id) = draft.category_id
              /\ Some(items'[id].title) = draft.title
              /\ items'[id].description = draft.description
              /\ items'[id].start_price = returned'.amount_cents
              /\ items'[id].start_price >= 0
              /\ \E ph \in ItemPhotos :
                   items'[id].images = WithPhoto(draft, ph).image_file_ids
              /\ dialogue'[c] = Idle]_vars

\* C32 witness: a draft with a description and the photos 2 and 1, in this
\* order, was committed at the price 1.00.
C32_ItemWithTwoPhotos ==
  /\ returned.reply = "item_created"
  /\ returned.draft.description # None
  /\ items[returned.item_id].images = <<2, 1>>
  /\ items[returned.item_id].start_price = 100
  /\ dialogue[returned.chat] = Idle

(***************************************************************************)
(* The photos of an AddItem draft.                                         *)
(***************************************************************************)
\* The list with the reference at its end unless the list has it
Joined(image_file_ids, photo) ==
  IF \E k \in 1 .. Len(image_file_ids) : image_file_ids[k] = photo
  THEN image_file_ids
  ELSE Append(image_file_ids, photo)

\* C33: a photo sent by the owner at any stage of an AddItem draft is in the
\* image list of the draft once the message is handled (no storage call
\* having failed) and the chat still holds the draft: at the end of the list
\* when the list did not have it, and the list as it was when it did.  The
\* list never holds a reference twice, and a message without text never
\* changes the stage.
C33_PhotoJoinsDraft ==
  [][\A c \in DOMAIN dialogue :
       /\ ( /\ task[c].pc = "idle"
            /\ dialogue[c].kind = "AddItem"
            /\ dialogue'[c].kind = "AddItem"
            /\ returned' # returned
            /\ returned'.chat = c
            /\ returned'.handler = "additem"
            /\ returned'.sender = dialogue[c].user
            /\ returned'.failed = "none" )
          => \A msg \in ItemMessages :
               (msg.photo # 0 /\ handle_additem_message(c, dialogue[c].user, msg))
               => dialogue'[c].image_file_ids =
                    Joined(dialogue[c].image_file_ids, msg.photo)
       /\ ( /\ task[c].pc = "ensure_category"
            /\ task[c].handler = "additem"
            /\ task[c].photo # 0
            /\ returned' # returned
            /\ returned'.chat = c
            /\ returned'.failed = "none" )
          => dialogue'[c].image_file_ids =
               Joined(dialogue[c].image_file_ids, task[c].photo)
       /\ dialogue'[c].kind = "AddItem"
          => \A j, k \in 1 .. Len(dialogue'[c].image_file_ids) :
               dialogue'[c].image_file_ids[j] = dialogue'[c].image_file_ids[k] => j = k
       /\ ( /\ dialogue[c].kind = "AddItem"
            /\ returned' # returned
            /\ returned'.chat = c
            /\ returned'.handler = "additem"
            /\ returned'.reply \in {"added_photo", "none"}
            /\ returned'.failed = "none" )
          => /\ dialogue'[c].kind = "AddItem"
             /\ dialogue'[c].stage = dialogue[c].stage]_vars

(***************************************************************************)
(* Outbid notices under concurrent bids.                                   *)
(***************************************************************************)
\* The place of the bid of handler t among the stored bids of its item, in
\* commit order (0: the bid is not stored)
BidIndex(t) ==
  LET bs == bids[t.item_id]
      at == {k \in 1 .. Len(bs) : bs[k].bidder_tg_id = t.sender /\ bs[k].amount = t.amount_cents}
  IN  IF at = {} THEN 0 ELSE CHOOSE k \in at : \A j \in at : j <= k

\* The best bid of the item when the bid of handler t was committed: the best
\* of the bids stored before it
BestBefore(t) ==
  LET prior == SubSeq(bids[t.item_id], 1, BidIndex(t) - 1) IN
  IF prior = <<>> THEN None
  ELSE <<prior[BestIndex(prior)].bidder_tg_id, prior[BestIndex(prior)].amount>>

\* With the bid of handler t the best bid of the item passed from another
\* bidder to the bidder of t
BestBidPassed(t) ==
  /\ BestBefore(t) # None
  /\ BestBefore(t)[1] # t.sender
  /\ BestBefore(t)[2] < t.amount_cents

\* C34: under every interleaving of bid submissions on an item, when the
\* best bid passes from one bidder to another, the displaced bidder is sent
\* an outbid notice for that change unless muted, and nobody is sent an
\* outbid notice for a change in which its bid was not the one displaced.
\* The step of the bid handler that decides on the outbid notice is compared
\* with the bids in commit order.  (A failed read of the mute preference is
\* left out.)
C34_OutbidNoticeToDisplacedBidder ==
  [][\A c \in Chats :
       ( /\ task[c].handler = "bid"
         /\ task[c].pc = "notify_outbid"
         /\ task'[c] # task[c]
         /\ After(c).outbid # "error"
         /\ BidIndex(task[c]) # 0 )
       => LET t == task[c]
              sent == After(c).outbid \in {"sent", "failed"}
          IN  /\ (BestBidPassed(t) /\ ~notifications_disabled[BestBefore(t)[1]]) => sent
              /\ sent => /\ BestBidPassed(t)
                         /\ t.previous_best[1] = BestBefore(t)[1]]_vars

(***************************************************************************)
(* Closing one item from two chats at the same time: the admin has the     *)
(* close prompt open in the private chat and in the group chat.  The       *)
(* handlers of the two chats interleave step by step.                      *)
(***************************************************************************)
CloseChats == {1, GroupChat}

CloseInit ==
  /\ categories = {CategoryRow(1, <<"x">>)}
  /\ items = [i \in ItemIds |-> ItemRow(1, 1, 100)]
  /\ bids \in [ItemIds -> BidHistories]
  /\ favorites = {}
  /\ users = Users
  /\ new_items = {}
  /\ serial = [items |-> NumItems, categories |-> 1]
  /\ notifications_disabled = [u \in Users |-> FALSE]
  /\ dialogue = [c \in CloseChats |-> Idle]
  /\ task = [c \in CloseChats |-> NoTask]
  /\ returned = NoTask
  /\ call = NoCall

CloseNext ==
  \/ \E c \in CloseChats, u \in Admins : callback_admin(c, u, "close_item")
  \/ \E c \in CloseChats, u \in Admins, text \in IdTexts : handle_close_item_message(c, u, text)
  \/ \E c \in CloseChats : close_get_item(c)
  \/ \E c \in CloseChats : close_close_item(c)
  \/ \E c \in CloseChats : close_notify(c)
  \/ \E c \in CloseChats : close_notify_recipients(c)

CloseSpec == CloseInit /\ [][CloseNext]_vars

\* C35: under every interleaving of close actions taken from different chats
\* on the same open item, the closure notices are sent by at most one of
\* them.  Checked where it would show first: a close handler sends its
\* notices for an item right after the close handler of another chat has
\* returned from sending notices for the same item.
C35_NoticesFromOneCloseOnly ==
  [][\A c \in CloseChats :
       ( /\ task[c].handler = "close"
         /\ task[c].pc = "notify_recipients"
         /\ returned' # returned
         /\ returned'.chat = c
         /\ returned'.notices # {} )
       => ~( /\ returned.handler = "close"
             /\ returned.chat # c
             /\ returned.item_id = task[c].item_id
             /\ returned.notices # {} )]_vars

\* C36: the winner and the final price announced by the closure notices of
\* an item stay the bidder and the amount of the best bid of the item in
\* every later state: no bid committed around the close makes the stored
\* best bid differ from what was announced.  Stated on the close handler
\* that returned last, for as long as the item is in the catalog.
C36_AnnouncedWinnerStaysBest ==
  ( /\ returned.handler = "close"
    /\ returned.notices # {}
    /\ items[returned.item_id].present )
  => /\ returned.winning_bid = best_bid_with_bidder(returned.item_id)
     /\ \A n \in returned.notices : n = closed_notice(n.to, returned.winning_bid)

\* C37: item creation is all-or-nothing.  A step that leaves a new item in
\* the catalog is a commit all of whose storage writes succeeded (the item
\* row and every image row), and it leaves the conversation Idle, so that
\* sending the price again cannot create a second item.
C37_ItemCreationAllOrNothing ==
  [][\A i \in ItemIds :
       (~items[i].present /\ items'[i].present)
       => /\ returned'.handler = "additem"
          /\ returned'.failed = "none"
          /\ dialogue'[GroupChat].kind = "Idle"]_vars

\* C38: a draft at stage Title, Description or StartPrice has its category
\* id and category name set, and a draft at stage Description or StartPrice
\* has its title set; so the commit never fails for a missing category or a
\* missing title.
C38_DraftFieldsSetByStage ==
  /\ \A c \in DOMAIN dialogue :
       dialogue[c].kind = "AddItem" =>
         /\ dialogue[c].stage \in {"Title", "Description", "StartPrice"}
              => dialogue[c].category_id # None /\ dialogue[c].category_name # None
         /\ dialogue[c].stage \in {"Description", "StartPrice"} => dialogue[c].title # None
  /\ returned.failed \notin {"missing_category", "missing_title"}

\* C38 witness: a draft whose category was named by its owner is at stage
\* StartPrice with category id, category name and title set, and a photo.
C38_DraftReadyToCommit ==
  /\ dialogue[GroupChat].kind = "AddItem"
  /\ dialogue[GroupChat].stage = "StartPrice"
  /\ dialogue[GroupChat].category_id = Some(1)
  /\ dialogue[GroupChat].category_name = Some(<<"1">>)
  /\ dialogue[GroupChat].title = Some(<<"-">>)
  /\ dialogue[GroupChat].image_file_ids # <<>>

(***************************************************************************)
(* One owner filling drafts with input that is always valid: a non-empty   *)
(* text that is not the cancel keyword, a well-formed price at the last    *)
(* stage, no storage call failing, and nothing else sent to the chat.  A   *)
(* handler in flight goes on running, and the owner keeps answering.       *)
(***************************************************************************)
FlowTexts == {<<"1">>, <<"x">>, <<"-">>}

FlowMessages == {[text |-> t, photo |-> ph] : t \in FlowTexts, ph \in ItemPhotos}

\* No storage call of the step fails: a handler that returns an error does
\* so from a failed send of its reply
StorageSucceeds ==
  ~(returned'.ret = "Err" /\ returned'.reply = "none")

\* The admin opens a draft while the chat is idle and the catalog has room
FlowOpen ==
  /\ dialogue[GroupChat].kind = "Idle"
  /\ serial.items < NumItems
  /\ \E u \in Admins : callback_admin(GroupChat, u, "add_item")
  /\ StorageSucceeds

\* The owner answers the prompt of the stage
FlowOwnerText ==
  /\ dialogue[GroupChat].kind = "AddItem"
  /\ \E msg \in FlowMessages :
       /\ dialogue[GroupChat].stage = "StartPrice" => parse_money_to_cents(Trim(msg.text)).ok
       /\ handle_additem_message(GroupChat, dialogue[GroupChat].user, msg)
  /\ StorageSucceeds

\* The handler in flight takes its next step
FlowHandlerStep ==
  /\ ensure_category_create(GroupChat)
  /\ StorageSucceeds

FlowNext ==
  \/ FlowOpen
  \/ FlowOwnerText
  \/ FlowHandlerStep

\* The owner can answer: the chat holds a draft and has no handler in flight.
\* In every state of the flow this is ENABLED <<FlowOwnerText>>_vars.
OwnerCanAnswer ==
  /\ dialogue[GroupChat].kind = "AddItem"
  /\ Free(GroupChat)

\* Weak fairness of the owner's answers, WF_vars(FlowOwnerText), written out
\* with OwnerCanAnswer for the enabling condition
OwnerKeepsAnswering ==
  []<>(~OwnerCanAnswer) \/ []<><<FlowOwnerText>>_vars

FlowSpec ==
  /\ DraftInit
  /\ [][FlowNext]_vars
  /\ OwnerKeepsAnswering
  /\ WF_vars(FlowHandlerStep)

\* The draft of the group chat is committed: the chat is idle and the item
\* created last is in the catalog
FlowCommitted ==
  /\ dialogue[GroupChat].kind = "Idle"
  /\ returned.handler = "additem"
  /\ returned.stored
  /\ returned.item_id \in ItemIds
  /\ items[returned.item_id].present

\* C39: a draft whose owner keeps answering with valid input, storage
\* succeeding and nothing else arriving, is committed after exactly four
\* text inputs from stage Category, and no stage absorbs valid text: every
\* text input handled moves the draft one stage forward (Category, Title,
\* Description, StartPrice), the input at StartPrice commits the item and
\* leaves the chat idle, and a draft that is open is eventually committed.
C39_DraftReachesCommit ==
  /\ [][( /\ returned' # returned
          /\ returned'.handler = "additem"
          /\ returned'.chat = GroupChat )
        => LET d == returned'.draft IN
           IF StageIndex(d.stage) = 4
           THEN FlowCommitted'
           ELSE /\ dialogue'[GroupChat].kind = "AddItem"
                /\ StageIndex(dialogue'[GroupChat].stage) = StageIndex(d.stage) + 1]_vars
  /\ [][dialogue[GroupChat].kind = "AddItem" /\ dialogue'[GroupChat] # dialogue[GroupChat]
        => returned' # returned /\ returned'.handler = "additem"]_vars
  /\ (dialogue[GroupChat].kind = "AddItem" /\ dialogue[GroupChat].stage = "Category")
       ~> FlowCommitted

\* C39 witness: a draft was committed with a title, a description and two
\* photos given along the way.
C39_CommittedAfterFourInputs ==
  /\ FlowCommitted
  /\ returned.draft.stage = "StartPrice"
  /\ items[returned.item_id].title = <<"x">>
  /\ items[returned.item_id].description = Some(<<"1">>)
  /\ Len(items[returned.item_id].images) = 2

====
